---- MODULE Spec2Model ----
(***************************************************************************)
(* Model of the content-analysis engine of the SEO prompter:               *)
(* EnhancedExcelParser (src/src/lib/enhancedExcelParser.ts) and the        *)
(* similarity helpers, the similar-posts effect and the row navigation of  *)
(* EnhancedPromptTabs (src/src/components/EnhancedPromptTabs.tsx).         *)
(*                                                                         *)
(* A JavaScript string is a sequence of one-character strings, so that     *)
(* split, trim and toLowerCase are computed and not assumed.  Category     *)
(* labels and URLs are only compared and copied by the code and are atomic *)
(* strings.  Row and array indices are 0-based, as in the source.          *)
(***************************************************************************)
EXTENDS Integers, Sequences, FiniteSets, TLC

VARIABLES
    rows,                       \* the row list handed to analyzeContentHolistically
    pc,                         \* position in analyzeContentHolistically
    index,                      \* forEach position of identifySemanticClusters
    processed,                  \* the Set<number> of claimed row indices
    clusters,                   \* the SemanticCluster[] built so far
    linkIndex,                  \* map position of identifyInternalLinkOpportunities
    internalLinkOpportunities,  \* the InternalLinkOpportunity[] built so far
    post1, post2,               \* the arguments of one calculateSimilarity call
    similarity,                 \* its result (EnhancedExcelParser)
    tabsSimilarity,             \* its result (EnhancedPromptTabs)
    pillarDistribution,         \* the result of analyzePillarDistribution
    contentGaps,                \* the result of identifyContentGaps
    activePromptIndex,          \* the useState of EnhancedPromptTabs, line 22
    semanticWarnings,           \* the useState of EnhancedPromptTabs, line 26
    shownSimilarPosts,          \* the list the last effect got from findSimilarPosts
    columnArg,                  \* the column number getColumnLetter is called with
    columnNumber,               \* EnhancedExcelParser.getColumnLetter: its parameter
    columnLetter,               \* its local columnLetter
    pcColumn,                   \* its position: "while" or "returned"
    excelColumnNumber,          \* ExcelParser.getColumnLetter: its parameter
    excelColumnLetter,          \* its local columnLetter
    pcExcelColumn,              \* its position: "while" or "returned"
    template,                   \* the TemplateMapping, or null
    fieldValues,                \* the useState fieldValues of the prompt tabs
    excelRow,                   \* the ExcelRow handed to processTemplate
    prompt,                     \* the result of EnhancedPromptTabs.generatePrompt
    promptTabsPrompt,           \* the result of PromptTabs.generatePrompt
    content,                    \* the result of processTemplate
    promptTabsData,             \* the data prop of PromptTabs
    promptTabsIndex,            \* the useState activePromptIndex of PromptTabs
    calendarData,               \* the data prop of ContentCalendarAnalysis
    calendarIndex,              \* the useState currentIndex of ContentCalendarAnalysis
    templates,                  \* the useState templates of the home page
    activeTemplate,             \* the useState activeTemplate of the home page
    pendingDeletes              \* the handleTemplateDelete calls awaiting the service

vars == <<rows, pc, index, processed, clusters, linkIndex,
          internalLinkOpportunities, post1, post2, similarity, tabsSimilarity,
          pillarDistribution, contentGaps, activePromptIndex, semanticWarnings,
          shownSimilarPosts,
          columnArg, columnNumber, columnLetter, pcColumn, excelColumnNumber,
          excelColumnLetter, pcExcelColumn, template, fieldValues, excelRow,
          prompt, promptTabsPrompt, content,
          promptTabsData, promptTabsIndex, calendarData, calendarIndex,
          templates, activeTemplate, pendingDeletes>>

simVars == <<post1, post2, similarity, tabsSimilarity>>

gapVars == <<pillarDistribution, contentGaps>>

tabsVars == <<activePromptIndex, semanticWarnings, shownSimilarPosts>>

columnVars == <<columnArg, columnNumber, columnLetter, pcColumn,
                excelColumnNumber, excelColumnLetter, pcExcelColumn>>

templateVars == <<template, fieldValues, excelRow, prompt, promptTabsPrompt,
                  content>>

null == [content |-> <<>>, fields |-> <<>>, isNull |-> TRUE]

\* no template, no values and no result
TemplateIdle ==
    /\ template = null
    /\ fieldValues = <<>>
    /\ excelRow = <<>>
    /\ prompt = <<>>
    /\ promptTabsPrompt = <<>>
    /\ content = <<>>

navVars == <<promptTabsData, promptTabsIndex, calendarData, calendarIndex>>

\* PromptTabs and ContentCalendarAnalysis not mounted
NavIdle ==
    /\ promptTabsData = <<>>
    /\ promptTabsIndex = 0
    /\ calendarData = <<>>
    /\ calendarIndex = 0

homeVars == <<templates, activeTemplate, pendingDeletes>>

\* the null of activeTemplate: no template has the id 0
nullTemplate == [id |-> 0]

\* the home page not mounted
HomeIdle ==
    /\ templates = <<>>
    /\ activeTemplate = nullTemplate
    /\ pendingDeletes = {}

\* both copies of getColumnLetter before any call
ColumnsIdle ==
    /\ columnArg = 0
    /\ columnNumber = 0
    /\ columnLetter = <<>>
    /\ pcColumn = "returned"
    /\ excelColumnNumber = 0
    /\ excelColumnLetter = <<>>
    /\ pcExcelColumn = "returned"

---------------------------------------------------------------------------
(* Bounds of the model. *)

\* longest row list drawn from ClusterPool
MaxRows == 3

\* longest row list drawn from LinkPool
MaxLinkRows == 5

\* longest generated keyword / title string of the similarity calls
MaxLen == 2

\* longest row list drawn from MissingPool
MaxMissingRows == 2

\* longest row list drawn from GapPool and from ProtoPool
MaxGapRows == 6

\* longest data list of the row navigator
MaxTabsRows == 3

\* the number of templates the service holds
MaxTemplates == 3

\* the number of handleTemplateDelete calls that await the service at a time
MaxPending == 1

\* the length of the row lists the data prop of a navigator is replaced by
MaxNavRows == 3

\* the number of pieces a template content is put together from
MaxPieces == 2

\* the largest column number getColumnLetter is called with: the first
\* column with a reference of three letters
MaxColumn == 702

\* the length of the lists of rows with theme words
MaxThemeRows == 2

\* the length of the long row lists of the row navigator, in which more than
\* five rows can qualify for the similar-rows list of one row
MaxLongRows == 7

---------------------------------------------------------------------------
(* JavaScript strings, arrays and numbers. *)

Min(a, b) == IF a < b THEN a ELSE b

Max(a, b) == IF a > b THEN a ELSE b

RECURSIVE GCD(_, _)
GCD(a, b) == IF b = 0 THEN a ELSE GCD(b, a % b)

LowerOf ==
    ("A" :> "a") @@ ("B" :> "b") @@ ("C" :> "c") @@ ("D" :> "d") @@
    ("E" :> "e") @@ ("F" :> "f") @@ ("G" :> "g") @@ ("H" :> "h") @@
    ("I" :> "i") @@ ("J" :> "j") @@ ("K" :> "k") @@ ("L" :> "l") @@
    ("M" :> "m") @@ ("N" :> "n") @@ ("O" :> "o") @@ ("P" :> "p") @@
    ("Q" :> "q") @@ ("R" :> "r") @@ ("S" :> "s") @@ ("T" :> "t") @@
    ("U" :> "u") @@ ("V" :> "v") @@ ("W" :> "w") @@ ("X" :> "x") @@
    ("Y" :> "y") @@ ("Z" :> "z")

\* String.prototype.toLowerCase
toLowerCase(s) ==
    [i \in 1..Len(s) |-> IF s[i] \in DOMAIN LowerOf THEN LowerOf[s[i]] ELSE s[i]]

\* a split that yields no empty piece, so none for the empty string
RECURSIVE splitNoEmptyPiece(_, _)
splitNoEmptyPiece(s, sep) ==
    IF s = <<>> THEN <<>>
    ELSE IF \A i \in 1..Len(s) : s[i] # sep THEN <<s>>
    ELSE LET i == CHOOSE i \in 1..Len(s) :
                      s[i] = sep /\ \A j \in 1..(i - 1) : s[j] # sep
         IN  (IF i = 1 THEN <<>> ELSE <<SubSeq(s, 1, i - 1)>>)
                 \o splitNoEmptyPiece(SubSeq(s, i + 1, Len(s)), sep)

\* String.prototype.split with a one-character separator: the pieces between
\* the separators, so the empty string gives the one empty piece
RECURSIVE split(_, _)
split(s, sep) ==
    IF \A i \in 1..Len(s) : s[i] # sep THEN <<s>>
    ELSE LET i == CHOOSE i \in 1..Len(s) :
                      s[i] = sep /\ \A j \in 1..(i - 1) : s[j] # sep
         IN  <<SubSeq(s, 1, i - 1)>> \o split(SubSeq(s, i + 1, Len(s)), sep)

\* String.prototype.trim (the only white space of the model is the blank)
trim(s) ==
    IF \A i \in 1..Len(s) : s[i] = " " THEN <<>>
    ELSE LET first == CHOOSE i \in 1..Len(s) :
                          s[i] # " " /\ \A j \in 1..(i - 1) : s[j] = " "
             last  == CHOOSE i \in 1..Len(s) :
                          s[i] # " " /\ \A j \in (i + 1)..Len(s) : s[j] = " "
         IN  SubSeq(s, first, last)

\* Array.prototype.includes
includes(list, x) == \E i \in 1..Len(list) : list[i] = x

\* the number of distinct elements that the two lists share
sharedDistinct(list, other) ==
    Cardinality({list[i] : i \in 1..Len(list)}
                    \cap {other[i] : i \in 1..Len(other)})

\* Array.prototype.filter(x => other.includes(x)).length
sharedCount(list, other) ==
    Cardinality({i \in 1..Len(list) : includes(other, list[i])})

\* String.prototype.includes: substring search
stringIncludes(s, sub) ==
    \E start \in 1..(Len(s) - Len(sub) + 1) :
        SubSeq(s, start, start + Len(sub) - 1) = sub

\* The indices 0 .. n-1 in ascending order, as map and filter visit them.
IndexSeq(n) == [k \in 1..n |-> k - 1]

\* Array.prototype.map(k => k.trim())
trimAll(list) == [k \in 1..Len(list) |-> trim(list[k])]

(* The value undefined of a property that a row object lacks               *)
(* (EnhancedExcelRow is [key: string]: string | undefined): for a title or *)
(* keywords property a value that is no sequence of characters, for a      *)
(* category a label that no row list of the model uses.                    *)
undefined == <<"undefined">>

undefinedLabel == "undefined"

\* x || '' for a title or keywords property
orEmpty(x) == IF x = undefined THEN <<>> ELSE x

\* x || '' for a category
labelOrEmpty(x) == IF x = undefinedLabel THEN "" ELSE x

(* A number is NaN or a fraction in lowest terms [num, den] with the       *)
(* deviation ulp of the IEEE-754 double the code computes from the double  *)
(* nearest to num/den, in units in the last place.  Two doubles with       *)
(* different exact values are ordered as those values are; two with the    *)
(* same exact value are ordered by ulp.                                    *)
NaN == [num |-> 0, den |-> 0, ulp |-> 0]

\* n / d of two non-negative integers: 0/0 is NaN
Divide(n, d) ==
    IF d = 0 THEN NaN
    ELSE LET g == GCD(n, d) IN [num |-> n \div g, den |-> d \div g, ulp |-> 0]

\* x > tn/td for a literal tn/td (the double nearest to it); NaN > y is false
GreaterThan(x, tn, td) ==
    /\ x # NaN
    /\ \/ x.num * td > tn * x.den
       \/ x.num * td = tn * x.den /\ x.ulp > 0

---------------------------------------------------------------------------
(* EnhancedExcelParser.calculateSimilarity and calculateTextSimilarity. *)

(* The rounding of  keywordSimilarity * 0.5 + pillarMatch + titleSimilarity *)
(* in binary64, for the overlap ratios k = kn/kd and t = tn/td with at most *)
(* six tokens on a side and pillarMatch p/10: the keys                     *)
(* <<kn, kd, p, tn, td>> whose double lies one unit in the last place      *)
(* above, or below, the double nearest to the exact sum.                   *)
RoundsUp ==
    { <<1, 2, 3, 1, 1>>, <<1, 3, 0, 1, 2>>, <<1, 3, 3, 1, 2>>,
      <<1, 3, 3, 2, 3>>, <<2, 3, 0, 1, 1>>, <<0, 1, 0, 3, 4>>,
      <<0, 1, 3, 3, 4>>, <<1, 2, 3, 3, 4>>, <<1, 4, 0, 3, 4>>,
      <<1, 4, 3, 3, 4>>, <<3, 4, 3, 3, 4>>, <<0, 1, 0, 1, 5>>,
      <<0, 1, 0, 2, 5>>, <<0, 1, 0, 4, 5>>, <<0, 1, 3, 4, 5>>,
      <<1, 1, 0, 1, 5>>, <<1, 1, 0, 4, 5>>, <<1, 1, 3, 1, 5>>,
      <<1, 1, 3, 2, 5>>, <<1, 2, 0, 2, 5>>, <<1, 2, 0, 4, 5>>,
      <<1, 2, 3, 1, 5>>, <<1, 2, 3, 2, 5>>, <<1, 2, 3, 4, 5>>,
      <<1, 3, 3, 4, 5>>, <<1, 4, 0, 1, 5>>, <<1, 4, 0, 2, 5>>,
      <<1, 4, 0, 4, 5>>, <<1, 4, 3, 4, 5>>, <<1, 5, 0, 1, 2>>,
      <<1, 5, 0, 1, 5>>, <<1, 5, 0, 2, 3>>, <<1, 5, 0, 4, 5>>,
      <<1, 5, 3, 1, 2>>, <<1, 5, 3, 1, 5>>, <<1, 5, 3, 2, 3>>,
      <<1, 5, 3, 3, 4>>, <<1, 5, 3, 4, 5>>, <<2, 5, 0, 1, 1>>,
      <<2, 5, 0, 1, 3>>, <<2, 5, 0, 1, 4>>, <<2, 5, 0, 2, 5>>,
      <<2, 5, 3, 1, 5>>, <<2, 5, 3, 4, 5>>, <<3, 4, 0, 4, 5>>,
      <<3, 4, 3, 1, 5>>, <<3, 4, 3, 2, 5>>, <<3, 4, 3, 4, 5>>,
      <<3, 5, 0, 3, 4>>, <<3, 5, 0, 4, 5>>, <<4, 5, 0, 1, 2>>,
      <<4, 5, 0, 1, 5>>, <<4, 5, 0, 2, 3>>, <<4, 5, 0, 3, 4>>,
      <<4, 5, 0, 4, 5>>, <<0, 1, 0, 5, 6>>, <<1, 2, 3, 5, 6>>,
      <<1, 4, 0, 5, 6>>, <<1, 5, 0, 1, 6>>, <<1, 5, 3, 5, 6>>,
      <<1, 6, 0, 1, 4>>, <<1, 6, 0, 4, 5>>, <<2, 3, 0, 5, 6>>,
      <<2, 5, 0, 5, 6>>, <<4, 5, 0, 5, 6>>, <<5, 6, 0, 1, 5>>,
      <<5, 6, 0, 3, 4>>, <<5, 6, 0, 3, 5>>, <<5, 6, 0, 4, 5>>,
      <<5, 6, 3, 1, 2>>, <<5, 6, 3, 2, 3>> }

RoundsDown ==
    { <<1, 1, 0, 2, 3>>, <<1, 2, 0, 1, 3>>, <<1, 2, 0, 2, 3>>,
      <<2, 3, 3, 1, 2>>, <<2, 3, 3, 1, 3>>, <<2, 3, 3, 2, 3>>,
      <<1, 4, 0, 1, 3>>, <<3, 4, 0, 2, 3>>, <<1, 3, 0, 3, 5>>,
      <<1, 5, 0, 3, 5>>, <<2, 3, 0, 3, 5>>, <<2, 5, 3, 2, 3>>,
      <<3, 5, 3, 1, 5>>, <<4, 5, 3, 1, 2>>, <<4, 5, 3, 1, 3>>,
      <<4, 5, 3, 1, 4>>, <<4, 5, 3, 2, 3>>, <<1, 4, 0, 1, 6>>,
      <<1, 6, 3, 0, 1>>, <<1, 6, 3, 1, 2>>, <<1, 6, 3, 1, 3>>,
      <<1, 6, 3, 1, 4>>, <<1, 6, 3, 1, 6>>, <<1, 6, 3, 2, 3>>,
      <<2, 3, 0, 1, 6>>, <<4, 5, 3, 1, 6>> }

\* k * 0.5 + p/10 + t * 0.4 without the cap at 1
weightedSumUncapped(k, p, t) ==
    IF k = NaN \/ t = NaN THEN NaN
    ELSE LET den == 10 * k.den * t.den
             num == 5 * k.num * t.den + p * k.den * t.den + 4 * t.num * k.den
             g   == GCD(num, den)
         IN  [num |-> num \div g, den |-> den \div g,
              ulp |-> CASE <<k.num, k.den, p, t.num, t.den>> \in RoundsUp -> 1
                        [] <<k.num, k.den, p, t.num, t.den>> \in RoundsDown -> -1
                        [] OTHER -> 0]

\* Math.min(k * 0.5 + p/10 + t * 0.4, 1) for ratios k, t and p in {0, 3}
weightedSum(k, p, t) ==
    IF k = NaN \/ t = NaN THEN NaN
    ELSE LET den == 10 * k.den * t.den
             num == 5 * k.num * t.den + p * k.den * t.den + 4 * t.num * k.den
             key == <<k.num, k.den, p, t.num, t.den>>
             g   == GCD(Min(num, den), den)
         IN  [num |-> Min(num, den) \div g, den |-> den \div g,
              ulp |-> CASE key \in RoundsUp -> 1
                        [] key \in RoundsDown -> -1
                        [] key \notin (RoundsUp \cup RoundsDown)
                             /\ k.den <= 6 /\ t.den <= 6 -> 0]

\* the shared words over the word count of the first text alone
calculateTextSimilarityOverFirst(text1, text2) ==
    Divide(sharedCount(split(toLowerCase(text1), " "),
                       split(toLowerCase(text2), " ")),
           Len(split(toLowerCase(text1), " ")))

\* lines 129-134
calculateTextSimilarity(text1, text2) ==
    LET words1 == split(toLowerCase(text1), " ")
        words2 == split(toLowerCase(text2), " ")
    IN  Divide(sharedCount(words1, words2), Max(Len(words1), Len(words2)))

\* lines 117-121 with the length of the first list as the divisor
keywordSimilarityOverFirst(post1kw, post2kw) ==
    LET keywords1 == trimAll(split(toLowerCase(post1kw), ","))
        keywords2 == trimAll(split(toLowerCase(post2kw), ","))
    IN  Divide(sharedCount(keywords1, keywords2), Len(keywords1))

\* lines 117-121: the keyword overlap ratio
keywordSimilarity(post1kw, post2kw) ==
    LET keywords1 == trimAll(split(toLowerCase(post1kw), ","))
        keywords2 == trimAll(split(toLowerCase(post2kw), ","))
    IN  Divide(sharedCount(keywords1, keywords2),
               Max(Len(keywords1), Len(keywords2)))

\* line 123, in tenths
pillarMatch(p1, p2) == IF p1.pillar = p2.pillar THEN 3 ELSE 0

\* lines 115-127
calculateSimilarity(p1, p2) ==
    weightedSum(keywordSimilarity(p1.keywords, p2.keywords),
                pillarMatch(p1, p2),
                calculateTextSimilarity(p1.title, p2.title))

---------------------------------------------------------------------------
(* calculateSimilarity and calculateTextSimilarity of EnhancedPromptTabs. *)

\* lines 117-122 without the toLowerCase of lines 118 and 119
tabsCalculateTextSimilarityCaseSensitive(text1, text2) ==
    LET words1 == split(text1, " ")
        words2 == split(text2, " ")
        sharedWords == sharedCount(words1, words2)
    IN  Divide(sharedWords, Max(Len(words1), Len(words2)))

\* EnhancedPromptTabs.tsx lines 117-122
tabsCalculateTextSimilarity(text1, text2) ==
    LET words1 == split(toLowerCase(text1), " ")
        words2 == split(toLowerCase(text2), " ")
        sharedWords == sharedCount(words1, words2)
    IN  Divide(sharedWords, Max(Len(words1), Len(words2)))

\* EnhancedPromptTabs.tsx lines 104-115
tabsCalculateSimilarity(p1, p2) ==
    LET keywords1 == trimAll(split(toLowerCase(p1.keywords), ","))
        keywords2 == trimAll(split(toLowerCase(p2.keywords), ","))
        sharedKeywords == sharedCount(keywords1, keywords2)
        kwSimilarity == Divide(sharedKeywords,
                               Max(Len(keywords1), Len(keywords2)))
        match == IF p1.pillar = p2.pillar THEN 3 ELSE 0
    IN  weightedSum(kwSimilarity, match,
                    tabsCalculateTextSimilarity(p1.title, p2.title))

---------------------------------------------------------------------------
(* EnhancedExcelParser.identifySemanticClusters. *)

\* line 138
commonThemes ==
    << <<"w", "i", "n", "e", " ", "t", "a", "s", "t", "i", "n", "g">>,
       <<"w", "e", "d", "d", "i", "n", "g">>,
       <<"v", "i", "n", "e", "y", "a", "r", "d">>,
       <<"e", "v", "e", "n", "t", "s">>,
       <<"s", "u", "s", "t", "a", "i", "n", "a", "b", "i", "l", "i", "t", "y">>,
       <<"h", "a", "r", "v", "e", "s", "t">> >>

themeNames ==
    <<"wine tasting", "wedding", "vineyard", "events", "sustainability",
      "harvest">>

\* lines 136-140 with the title alone searched for the themes
extractThemeOfTitle(title, keywords) ==
    LET allWords == toLowerCase(title)
        found == {i \in 1..Len(commonThemes) :
                      stringIncludes(allWords, commonThemes[i])}
    IN  IF found = {} THEN "General"
        ELSE themeNames[CHOOSE i \in found : \A j \in found : i <= j]

\* lines 136-140: the first theme found in `${title} ${keywords}`.toLowerCase()
extractTheme(title, keywords) ==
    LET allWords == toLowerCase(title \o <<" ">> \o keywords)
        found == {i \in 1..Len(commonThemes) :
                      stringIncludes(allWords, commonThemes[i])}
    IN  IF found = {} THEN "General"
        ELSE themeNames[CHOOSE i \in found : \A j \in found : i <= j]

\* lines 142-144
generateAnchorText(title) ==
    IF Len(title) > 50 THEN SubSeq(title, 1, 47) \o <<".", ".", ".">> ELSE title

\* lines 71-73 and 82-84: the object literal handed to calculateSimilarity,
\* each property with || ''
postOf(row) ==
    [title |-> orEmpty(row.B), keywords |-> orEmpty(row.C),
     pillar |-> labelOrEmpty(row.D)]

\* lines 163-164: the object literal with the properties as they are
rawPostOf(row) == [title |-> row.B, keywords |-> row.C, pillar |-> row.D]

\* lines 117-118 and 130-131: toLowerCase is called on the keywords and on the
\* title of both posts, and undefined.toLowerCase() is a TypeError
throwsTypeError(p1, p2) ==
    \/ p1.keywords = undefined \/ p2.keywords = undefined
    \/ p1.title = undefined \/ p2.title = undefined

\* line 77: the rows the map callback does not skip
isCandidateIgnoringClaims(otherIndex, idx, done) == idx # otherIndex

isCandidateLaterOnly(otherIndex, idx, done) ==
    idx < otherIndex /\ otherIndex \notin done

isCandidate(otherIndex, idx, done) ==
    idx # otherIndex /\ otherIndex \notin done

\* line 88: the clustering threshold
isSimilarAtLeast(s) ==
    GreaterThan(s, 3, 10) \/ (s # NaN /\ s.num * 10 = 3 * s.den /\ s.ulp = 0)

isSimilar(s) == GreaterThan(s, 3, 10)

\* Insertion of a post into a list kept in descending order of similarity.
RECURSIVE insertByScore(_, _)
insertByScore(sorted, post) ==
    IF sorted = <<>> THEN <<post>>
    ELSE LET a == sorted[1].similarity
             b == post.similarity
             before == \/ a.num * b.den > b.num * a.den
                       \/ a.num * b.den = b.num * a.den /\ a.ulp >= b.ulp
         IN  IF before
             THEN <<sorted[1]>> \o insertByScore(Tail(sorted), post)
             ELSE <<post>> \o sorted

RECURSIVE sortByScore(_)
sortByScore(posts) ==
    IF posts = <<>> THEN <<>>
    ELSE insertByScore(sortByScore(SubSeq(posts, 1, Len(posts) - 1)),
                       posts[Len(posts)])

\* lines 75-90 with the arguments of calculateSimilarity exchanged
similarPostsReversed(rs, idx, done) ==
    LET score(j) == calculateSimilarity(postOf(rs[j + 1]), postOf(rs[idx + 1]))
        kept == SelectSeq(IndexSeq(Len(rs)),
                          LAMBDA j : isCandidate(j, idx, done) /\ isSimilar(score(j)))
    IN  [k \in 1..Len(kept) |->
            [index |-> kept[k], similarity |-> score(kept[k]),
             row |-> rs[kept[k] + 1]]]

\* lines 75-90 followed by a sort on descending similarity
similarPostsSorted(rs, idx, done) ==
    LET score(j) == calculateSimilarity(postOf(rs[idx + 1]), postOf(rs[j + 1]))
        kept == SelectSeq(IndexSeq(Len(rs)),
                          LAMBDA j : isCandidate(j, idx, done) /\ isSimilar(score(j)))
    IN  sortByScore([k \in 1..Len(kept) |->
            [index |-> kept[k], similarity |-> score(kept[k]),
             row |-> rs[kept[k] + 1]]])

\* lines 75-90: map to {index, similarity, row} or null, then drop the nulls
similarPosts(rs, idx, done) ==
    LET score(j) == calculateSimilarity(postOf(rs[idx + 1]), postOf(rs[j + 1]))
        kept == SelectSeq(IndexSeq(Len(rs)),
                          LAMBDA j : isCandidate(j, idx, done) /\ isSimilar(score(j)))
    IN  [k \in 1..Len(kept) |->
            [index |-> kept[k], similarity |-> score(kept[k]),
             row |-> rs[kept[k] + 1]]]

\* lines 93-104
newCluster(rs, idx, posts, count) ==
    [id |-> count,
     mainPost |-> [index |-> idx, row |-> rs[idx + 1]],
     relatedPosts |-> posts,
     theme |-> extractTheme(orEmpty(rs[idx + 1].B), orEmpty(rs[idx + 1].C)),
     internalLinkOpportunities |->
         [k \in 1..Len(posts) |->
             [fromIndex |-> idx, toIndex |-> posts[k].index,
              suggestedAnchor |-> generateAnchorText(orEmpty(posts[k].row.B)),
              relevance |-> posts[k].similarity]]]

\* lines 68-110: one call of the forEach callback
ClusterStep ==
    /\ pc = "clusters"
    /\ index < Len(rows)
    /\ index' = index + 1
    /\ IF index \in processed
       THEN UNCHANGED <<clusters, processed>>
       ELSE LET posts == similarPosts(rows, index, processed)
            IN  IF Len(posts) > 0
                THEN /\ clusters' = Append(clusters,
                                        newCluster(rows, index, posts, Len(clusters)))
                     /\ processed' = processed \cup {index}
                                       \cup {posts[k].index : k \in 1..Len(posts)}
                ELSE UNCHANGED <<clusters, processed>>
    /\ UNCHANGED <<rows, pc, linkIndex, internalLinkOpportunities>>
    /\ UNCHANGED simVars
    /\ UNCHANGED gapVars
    /\ UNCHANGED tabsVars
    /\ UNCHANGED columnVars
    /\ UNCHANGED templateVars
    /\ UNCHANGED navVars
    /\ UNCHANGED homeVars

\* line 112: return clusters; analyzeContentHolistically goes on to line 50
ClustersReturn ==
    /\ pc = "clusters"
    /\ index = Len(rows)
    /\ pc' = "links"
    /\ UNCHANGED <<rows, index, processed, clusters, linkIndex,
                   internalLinkOpportunities>>
    /\ UNCHANGED simVars
    /\ UNCHANGED gapVars
    /\ UNCHANGED tabsVars
    /\ UNCHANGED columnVars
    /\ UNCHANGED templateVars
    /\ UNCHANGED navVars
    /\ UNCHANGED homeVars

---------------------------------------------------------------------------
(* EnhancedExcelParser.identifyInternalLinkOpportunities. *)

\* line 149: the indices of the rows with a truthy published_url
publishedIndices(rs) ==
    SelectSeq(IndexSeq(Len(rs)), LAMBDA j : rs[j + 1].published_url # "")

\* lines 158-170 with a sort on descending similarity before the slice
findRelatedPublishedPostsByScore(current, rs) ==
    LET score(j) == calculateSimilarity(rawPostOf(rs[current + 1]),
                                        rawPostOf(rs[j + 1]))
        related == SelectSeq(IndexSeq(Len(rs)),
                      LAMBDA j : /\ rs[j + 1].published_url # "" /\ j # current
                                 /\ GreaterThan(score(j), 2, 10))
        sorted == sortByScore([k \in 1..Len(related) |->
                      [index |-> related[k], similarity |-> score(related[k])]])
    IN  [k \in 1..Min(3, Len(sorted)) |-> rs[sorted[k].index + 1].published_url]

\* lines 158-170; currentRow is the object rs[current], and row !== currentRow
\* compares object identity, which is the position in rs
findRelatedPublishedPosts(current, rs) ==
    LET others == SelectSeq(IndexSeq(Len(rs)),
                      LAMBDA j : rs[j + 1].published_url # "" /\ j # current)
        related == SelectSeq(others,
                      LAMBDA j : GreaterThan(
                          calculateSimilarity(rawPostOf(rs[current + 1]),
                                              rawPostOf(rs[j + 1])), 2, 10))
        sliced == SubSeq(related, 1, Min(3, Len(related)))
    IN  [k \in 1..Len(sliced) |-> rs[sliced[k] + 1].published_url]

\* lines 161-167: the second filter calls calculateSimilarity on the current
\* row and on every other published row, and one of the calls throws
findRelatedThrows(current, rs) ==
    \E j \in 0..(Len(rs) - 1) :
        /\ rs[j + 1].published_url # "" /\ j # current
        /\ throwsTypeError(rawPostOf(rs[current + 1]), rawPostOf(rs[j + 1]))

\* lines 150-155: one call of the map callback, on the filtered array; a
\* TypeError of findRelatedPublishedPosts is caught nowhere in the engine and
\* ends analyzeContentHolistically without a result
LinkStep ==
    /\ pc = "links"
    /\ linkIndex < Len(publishedIndices(rows))
    /\ LET current == publishedIndices(rows)[linkIndex + 1]
           row == rows[current + 1]
       IN  IF findRelatedThrows(current, rows)
           THEN /\ pc' = "error"
                /\ UNCHANGED <<linkIndex, internalLinkOpportunities>>
           ELSE /\ internalLinkOpportunities' =
                       Append(internalLinkOpportunities,
                              [postIndex |-> linkIndex,
                               title |-> orEmpty(row.B),
                               url |-> row.published_url,
                               suggestedLinks |->
                                   findRelatedPublishedPosts(current, rows)])
                /\ linkIndex' = linkIndex + 1
                /\ UNCHANGED pc
    /\ UNCHANGED <<rows, index, processed, clusters>>
    /\ UNCHANGED simVars
    /\ UNCHANGED gapVars
    /\ UNCHANGED tabsVars
    /\ UNCHANGED columnVars
    /\ UNCHANGED templateVars
    /\ UNCHANGED navVars
    /\ UNCHANGED homeVars

\* the map is done; analyzeContentHolistically goes on to line 51
LinksReturn ==
    /\ pc = "links"
    /\ linkIndex = Len(publishedIndices(rows))
    /\ pc' = "gaps"
    /\ UNCHANGED <<rows, index, processed, clusters, linkIndex,
                   internalLinkOpportunities>>
    /\ UNCHANGED simVars
    /\ UNCHANGED gapVars
    /\ UNCHANGED tabsVars
    /\ UNCHANGED columnVars
    /\ UNCHANGED templateVars
    /\ UNCHANGED navVars
    /\ UNCHANGED homeVars

---------------------------------------------------------------------------
(* EnhancedExcelParser.analyzePillarDistribution and identifyContentGaps. *)

(* The value of a property of the distribution object: a number, or the    *)
(* string that + makes of a value that is no number.  A string is the      *)
(* sequence of its pieces here.                                            *)
number(n) == [type |-> "number", value |-> n]

string(pieces) == [type |-> "string", value |-> pieces]

(* distribution is a plain object ({}), so distribution[pillar] of a key   *)
(* that is not its own property is looked up in Object.prototype: the      *)
(* source text of the function found there, as String(f) gives it.         *)
ObjectPrototype ==
    ("constructor" :> "function Object() { [native code] }") @@
    ("toString" :> "function toString() { [native code] }") @@
    ("valueOf" :> "function valueOf() { [native code] }") @@
    ("hasOwnProperty" :> "function hasOwnProperty() { [native code] }")

\* line 59: (distribution[pillar] || 0) + 1 for a key that is not yet an own
\* property; a function is truthy, and function + 1 is a string
firstCount(pillar) ==
    IF pillar \in DOMAIN ObjectPrototype
    THEN string(<<ObjectPrototype[pillar], "1">>)
    ELSE number(1)

\* line 59: (distribution[pillar] || 0) + 1 for an own property; a count and
\* a string made in line 59 are truthy
nextCount(v) ==
    IF v.type = "number" THEN number(v.value + 1)
    ELSE string(Append(v.value, "1"))

\* line 58
pillarOf(row) ==
    IF row.D = undefinedLabel \/ row.D = "" THEN "Unknown" ELSE row.D

(* lines 55-62.  The object is the sequence of its own properties          *)
(* [pillar, count] in the order of their creation, which is the order of   *)
(* Object.entries for keys that are no array indices.                      *)
RECURSIVE analyzePillarDistribution(_)
analyzePillarDistribution(rs) ==
    IF rs = <<>> THEN <<>>
    ELSE LET distribution == analyzePillarDistribution(SubSeq(rs, 1, Len(rs) - 1))
             pillar == pillarOf(rs[Len(rs)])
             own == {i \in 1..Len(distribution) : distribution[i].pillar = pillar}
         IN  IF own = {}
             THEN Append(distribution,
                         [pillar |-> pillar, count |-> firstCount(pillar)])
             ELSE LET i == CHOOSE i \in own : TRUE
                  IN  [distribution EXCEPT ![i].count = nextCount(@)]

(* Math.ceil(totalPosts * 0.2).  The double 0.2 lies above 1/5, but for    *)
(* every totalPosts up to 100 the product rounds to the double of          *)
(* totalPosts / 5 when that is an integer, so that the result is the       *)
(* ceiling of the exact fifth.                                             *)
ceilOfFifth(totalPosts) == (totalPosts + 4) \div 5

\* lines 172-184: number - string is NaN, Math.max(0, NaN) is NaN, and
\* NaN > 0 is false
identifyContentGaps(rs) ==
    LET pillarCounts == analyzePillarDistribution(rs)
        totalPosts == Len(rs)
        positive == SelectSeq(IndexSeq(Len(pillarCounts)),
                        LAMBDA i :
                            /\ pillarCounts[i + 1].count.type = "number"
                            /\ ceilOfFifth(totalPosts)
                                   - pillarCounts[i + 1].count.value > 0)
    IN  [k \in 1..Len(positive) |->
            [pillar |-> pillarCounts[positive[k] + 1].pillar,
             currentCount |-> pillarCounts[positive[k] + 1].count.value,
             suggestedCount |-> ceilOfFifth(totalPosts),
             gap |-> Max(0, ceilOfFifth(totalPosts)
                                - pillarCounts[positive[k] + 1].count.value)]]

\* line 48
PillarDistribution ==
    /\ pc = "pillars"
    /\ pillarDistribution' = analyzePillarDistribution(rows)
    /\ pc' = "clusters"
    /\ UNCHANGED <<rows, index, processed, clusters, linkIndex,
                   internalLinkOpportunities, contentGaps>>
    /\ UNCHANGED simVars
    /\ UNCHANGED tabsVars
    /\ UNCHANGED columnVars
    /\ UNCHANGED templateVars
    /\ UNCHANGED navVars
    /\ UNCHANGED homeVars

\* line 51, and the return of the result object of lines 45-52
ContentGaps ==
    /\ pc = "gaps"
    /\ contentGaps' = identifyContentGaps(rows)
    /\ pc' = "done"
    /\ UNCHANGED <<rows, index, processed, clusters, linkIndex,
                   internalLinkOpportunities, pillarDistribution>>
    /\ UNCHANGED simVars
    /\ UNCHANGED tabsVars
    /\ UNCHANGED columnVars
    /\ UNCHANGED templateVars
    /\ UNCHANGED navVars
    /\ UNCHANGED homeVars

---------------------------------------------------------------------------
(* The row lists the engine is run on. *)

Titles == { <<"a">>, <<"b">> }

Keywords == { <<"X", ",", " ", "x">>, <<"x", ",", "y">>, <<>> }

Pillars == { "P", "Q" }

\* unpublished rows that differ in title, keywords and category
ClusterPool ==
    [B : Titles, C : Keywords, D : Pillars, published_url : {""}]

\* two groups of rows alike within the group, published under u or v or not,
\* and a row that shares only the category of the first and the rest of the second
LinkPool ==
    { [B |-> <<"a">>, C |-> <<"x">>, D |-> "P", published_url |-> "u"],
      [B |-> <<"a">>, C |-> <<"x">>, D |-> "P", published_url |-> "v"],
      [B |-> <<"b">>, C |-> <<"y">>, D |-> "Q", published_url |-> "u"],
      [B |-> <<"a">>, C |-> <<"x">>, D |-> "P", published_url |-> ""],
      [B |-> <<"b">>, C |-> <<"y">>, D |-> "P", published_url |-> "w"] }

\* rows that lack a property, published or not
MissingPool ==
    { [B |-> undefined, C |-> <<"x">>, D |-> "P", published_url |-> "u"],
      [B |-> <<"a">>, C |-> undefined, D |-> "P", published_url |-> "v"],
      [B |-> <<"a">>, C |-> <<"x">>, D |-> undefinedLabel, published_url |-> "w"],
      [B |-> <<"a">>, C |-> <<"x">>, D |-> "", published_url |-> "u"],
      [B |-> undefined, C |-> undefined, D |-> undefinedLabel,
       published_url |-> ""] }

GapPillars == { "P", "Q", "" }

\* rows that differ in their category only, some with the empty category
GapPool ==
    [B : {<<"a">>}, C : {<<"x">>}, D : GapPillars, published_url : {""}]

\* rows that differ in their category only: one without the property, and
\* one whose category is the name of a property of Object.prototype
ProtoPool ==
    [B : {<<"a">>}, C : {<<"x">>}, D : {"P", undefinedLabel, "constructor"},
     published_url : {""}]

\* the three rows of the end-to-end example of the specification
ExampleRow1 ==
    [B |-> <<"H", "u", "d", "s", "o", "n", " ", "V", "a", "l", "l", "e", "y",
             " ", "W", "i", "n", "e", " ", "T", "a", "s", "t", "i", "n", "g",
             " ", "G", "u", "i", "d", "e">>,
     C |-> <<"w", "i", "n", "e", " ", "t", "a", "s", "t", "i", "n", "g", ",",
             " ", "h", "u", "d", "s", "o", "n", " ", "v", "a", "l", "l", "e",
             "y", ",", " ", "v", "i", "n", "e", "y", "a", "r", "d", " ", "t",
             "o", "u", "r", "s">>,
     D |-> "Wine Education", published_url |-> "https://example.com/p1"]

ExampleRow2 ==
    [B |-> <<"W", "i", "n", "e", " ", "T", "a", "s", "t", "i", "n", "g", " ",
             "T", "e", "c", "h", "n", "i", "q", "u", "e", "s", " ", "f", "o",
             "r", " ", "B", "e", "g", "i", "n", "n", "e", "r", "s">>,
     C |-> <<"w", "i", "n", "e", " ", "t", "a", "s", "t", "i", "n", "g", ",",
             " ", "b", "e", "g", "i", "n", "n", "e", "r", " ", "g", "u", "i",
             "d", "e", ",", " ", "t", "e", "c", "h", "n", "i", "q", "u", "e",
             "s">>,
     D |-> "Wine Education", published_url |-> ""]

ExampleRow3 ==
    [B |-> <<"S", "u", "s", "t", "a", "i", "n", "a", "b", "l", "e", " ", "W",
             "e", "d", "d", "i", "n", "g", " ", "V", "e", "n", "u", "e", "s",
             " ", "i", "n", " ", "H", "u", "d", "s", "o", "n", " ", "V", "a",
             "l", "l", "e", "y">>,
     C |-> <<"s", "u", "s", "t", "a", "i", "n", "a", "b", "l", "e", " ", "w",
             "e", "d", "d", "i", "n", "g", "s", ",", " ", "e", "c", "o", " ",
             "v", "e", "n", "u", "e", ",", " ", "h", "u", "d", "s", "o", "n",
             " ", "v", "a", "l", "l", "e", "y">>,
     D |-> "Events & Experiences", published_url |-> ""]

ExampleRows == <<ExampleRow1, ExampleRow2, ExampleRow3>>

\* rows of one category that share the keyword x, with theme words in the
\* title, in the keywords, across both, or nowhere
ThemePool ==
    { [B |-> <<"H", "a", "r", "v", "e", "s", "t", " ", "W", "e", "d", "d", "i", "n", "g">>,
       C |-> <<"x">>, D |-> "P", published_url |-> ""],
      [B |-> <<"w", "i", "n", "e">>,
       C |-> <<"t", "a", "s", "t", "i", "n", "g", ",", " ", "x">>,
       D |-> "P", published_url |-> ""],
      [B |-> <<"a">>, C |-> <<"x">>, D |-> "P", published_url |-> ""],
      [B |-> <<"V", "i", "n", "e", "y", "a", "r", "d", " ", "E", "V", "E", "N", "T", "S">>,
       C |-> <<"x">>, D |-> "P", published_url |-> ""],
      [B |-> <<"a">>,
       C |-> <<"x", ",", "S", "u", "s", "t", "a", "i", "n", "a", "b", "i", "l", "i", "t", "y">>,
       D |-> "P", published_url |-> ""] }

RowLists(pool, n) == UNION {[1..k -> pool] : k \in 0..n}

NoPost == [title |-> <<>>, keywords |-> <<>>, pillar |-> ""]

Init ==
    /\ rows \in RowLists(ClusterPool, MaxRows)
                   \cup RowLists(LinkPool, MaxLinkRows)
                   \cup RowLists(MissingPool, MaxMissingRows)
                   \cup RowLists(GapPool, MaxGapRows)
                   \cup RowLists(ProtoPool, MaxGapRows)
                   \cup RowLists(ThemePool, MaxThemeRows)
                   \cup {ExampleRows}
    /\ pc = "pillars"
    /\ pillarDistribution = <<>>
    /\ contentGaps = <<>>
    /\ activePromptIndex = 0
    /\ semanticWarnings = <<>>
    /\ shownSimilarPosts = <<>>
    /\ index = 0
    /\ processed = {}
    /\ clusters = <<>>
    /\ linkIndex = 0
    /\ internalLinkOpportunities = <<>>
    /\ post1 = NoPost
    /\ post2 = NoPost
    /\ similarity = NaN
    /\ tabsSimilarity = NaN
    /\ ColumnsIdle
    /\ TemplateIdle
    /\ NavIdle
    /\ HomeIdle

Next ==
    \/ PillarDistribution
    \/ ClusterStep \/ ClustersReturn
    \/ LinkStep \/ LinksReturn
    \/ ContentGaps

Spec == Init /\ [][Next]_vars

---------------------------------------------------------------------------
(* Single calls of calculateSimilarity on generated strings. *)

Strings(alphabet, n) == UNION {[1..k -> alphabet] : k \in 0..n}

KeywordStrings == Strings({"a", "A", ",", " "}, MaxLen)

TitleStrings == Strings({"a", "A", " "}, MaxLen)

FewKeywords == { <<>>, <<"a", ",", "a">>, <<"a", ",", " ", "B">> }

FewTitles == { <<>>, <<"a", " ", "b">>, <<"A">>, <<"a", " ", "a">> }

SimPillars == { "P", "p" }

\* the argument pairs: every keyword string against every keyword string,
\* over a few titles, every title against every title, over a few keyword
\* strings, and the few titles and keyword strings against each other
SimPairs ==
    ([title : FewTitles, keywords : KeywordStrings, pillar : SimPillars]
        \X [title : FewTitles, keywords : KeywordStrings, pillar : SimPillars])
    \cup
    ([title : TitleStrings, keywords : FewKeywords, pillar : SimPillars]
        \X [title : TitleStrings, keywords : FewKeywords, pillar : SimPillars])
    \cup
    ([title : FewTitles, keywords : FewKeywords, pillar : SimPillars]
        \X [title : FewTitles, keywords : FewKeywords, pillar : SimPillars])

SimInit ==
    /\ \E pair \in SimPairs : post1 = pair[1] /\ post2 = pair[2]
    /\ pc = "similarity"
    /\ similarity = NaN
    /\ tabsSimilarity = NaN
    /\ rows = <<>>
    /\ index = 0
    /\ processed = {}
    /\ clusters = <<>>
    /\ linkIndex = 0
    /\ internalLinkOpportunities = <<>>
    /\ pillarDistribution = <<>>
    /\ contentGaps = <<>>
    /\ activePromptIndex = 0
    /\ semanticWarnings = <<>>
    /\ shownSimilarPosts = <<>>
    /\ ColumnsIdle
    /\ TemplateIdle
    /\ NavIdle
    /\ HomeIdle

\* one call of each copy of calculateSimilarity
CallSimilarity ==
    /\ pc = "similarity"
    /\ pc' = "returned"
    /\ similarity' = calculateSimilarity(post1, post2)
    /\ tabsSimilarity' = tabsCalculateSimilarity(post1, post2)
    /\ UNCHANGED <<post1, post2, rows, index, processed, clusters, linkIndex,
                   internalLinkOpportunities>>
    /\ UNCHANGED gapVars
    /\ UNCHANGED tabsVars
    /\ UNCHANGED columnVars
    /\ UNCHANGED templateVars
    /\ UNCHANGED navVars
    /\ UNCHANGED homeVars

SimNext == CallSimilarity

SpecSim == SimInit /\ [][SimNext]_vars

---------------------------------------------------------------------------
(* EnhancedPromptTabs: the effect of lines 29-74 on the current row, with  *)
(* a template and a fullAnalysis given, and the row navigation.  The data  *)
(* prop is the variable rows.                                              *)

\* lines 76-102 without the sort of line 100: the first five in row order
findSimilarPostsUnsorted(currentPost, allData, currentIndex) ==
    LET score(j) == tabsCalculateSimilarity(postOf(currentPost),
                                            postOf(allData[j + 1]))
        kept == SelectSeq(IndexSeq(Len(allData)),
                    LAMBDA j : j # currentIndex /\ GreaterThan(score(j), 3, 10))
        entries == [k \in 1..Len(kept) |->
                      [index |-> kept[k],
                       title |-> orEmpty(allData[kept[k] + 1].B),
                       similarity |-> score(kept[k]),
                       pillar |-> labelOrEmpty(allData[kept[k] + 1].D),
                       isPublished |-> allData[kept[k] + 1].published_url # "",
                       url |-> allData[kept[k] + 1].published_url]]
    IN  SubSeq(entries, 1, Min(5, Len(entries)))

\* EnhancedPromptTabs.tsx lines 76-102
findSimilarPosts(currentPost, allData, currentIndex) ==
    LET score(j) == tabsCalculateSimilarity(postOf(currentPost),
                                            postOf(allData[j + 1]))
        kept == SelectSeq(IndexSeq(Len(allData)),
                    LAMBDA j : j # currentIndex /\ GreaterThan(score(j), 3, 10))
        sorted == sortByScore([k \in 1..Len(kept) |->
                      [index |-> kept[k],
                       title |-> orEmpty(allData[kept[k] + 1].B),
                       similarity |-> score(kept[k]),
                       pillar |-> labelOrEmpty(allData[kept[k] + 1].D),
                       isPublished |-> allData[kept[k] + 1].published_url # "",
                       url |-> allData[kept[k] + 1].published_url]])
    IN  SubSeq(sorted, 1, Min(5, Len(sorted)))

\* line 138: the text, with the number of posts in it
highSimilarityWarning(n) ==
    <<"High semantic similarity detected with ", n,
      " post(s). Consider differentiating approach.">>

\* line 143
publishedWarning ==
    <<"Similar published content exists. Ensure unique angle to avoid content cannibalization.">>

\* lines 134-148 with the second warning only in the absence of the first
checkSemanticSimilarityExclusive(posts) ==
    LET highSimilarity ==
            SelectSeq(posts, LAMBDA q : GreaterThan(q.similarity, 7, 10))
        publishedSimilar ==
            SelectSeq(posts, LAMBDA q : q.isPublished
                                            /\ GreaterThan(q.similarity, 5, 10))
    IN  IF Len(highSimilarity) > 0
        THEN <<highSimilarityWarning(Len(highSimilarity))>>
        ELSE IF Len(publishedSimilar) > 0 THEN <<publishedWarning>> ELSE <<>>

\* lines 134-148: the list handed to setSemanticWarnings
checkSemanticSimilarity(posts) ==
    LET highSimilarity ==
            SelectSeq(posts, LAMBDA q : GreaterThan(q.similarity, 7, 10))
        publishedSimilar ==
            SelectSeq(posts, LAMBDA q : q.isPublished
                                            /\ GreaterThan(q.similarity, 5, 10))
    IN  (IF Len(highSimilarity) > 0
         THEN <<highSimilarityWarning(Len(highSimilarity))>> ELSE <<>>)
        \o (IF Len(publishedSimilar) > 0 THEN <<publishedWarning>> ELSE <<>>)

\* lines 29-74: the effect, run after the mount and after every change of
\* activePromptIndex; it does nothing when data[activePromptIndex] is undefined
TabsEffect ==
    /\ pc = "render"
    /\ pc' = "shown"
    /\ IF activePromptIndex < Len(rows)
       THEN LET posts == findSimilarPosts(rows[activePromptIndex + 1], rows,
                                          activePromptIndex)
            IN  /\ shownSimilarPosts' = posts
                /\ semanticWarnings' = checkSemanticSimilarity(posts)
       ELSE UNCHANGED <<shownSimilarPosts, semanticWarnings>>
    /\ UNCHANGED <<rows, index, processed, clusters, linkIndex,
                   internalLinkOpportunities, activePromptIndex>>
    /\ UNCHANGED simVars
    /\ UNCHANGED gapVars
    /\ UNCHANGED columnVars
    /\ UNCHANGED templateVars
    /\ UNCHANGED navVars
    /\ UNCHANGED homeVars

\* line 319: the Previous button; the effect runs again if the index changed
Previous ==
    /\ pc = "shown"
    /\ activePromptIndex' = Max(0, activePromptIndex - 1)
    /\ pc' = IF activePromptIndex' # activePromptIndex THEN "render" ELSE "shown"
    /\ UNCHANGED <<rows, index, processed, clusters, linkIndex,
                   internalLinkOpportunities, semanticWarnings,
                   shownSimilarPosts>>
    /\ UNCHANGED simVars
    /\ UNCHANGED gapVars
    /\ UNCHANGED columnVars
    /\ UNCHANGED templateVars
    /\ UNCHANGED navVars
    /\ UNCHANGED homeVars

\* line 329: the Next button
NextPrompt ==
    /\ pc = "shown"
    /\ activePromptIndex' = Min(Len(rows) - 1, activePromptIndex + 1)
    /\ pc' = IF activePromptIndex' # activePromptIndex THEN "render" ELSE "shown"
    /\ UNCHANGED <<rows, index, processed, clusters, linkIndex,
                   internalLinkOpportunities, semanticWarnings,
                   shownSimilarPosts>>
    /\ UNCHANGED simVars
    /\ UNCHANGED gapVars
    /\ UNCHANGED columnVars
    /\ UNCHANGED templateVars
    /\ UNCHANGED navVars
    /\ UNCHANGED homeVars

\* rows alike in title, keywords and category to different degrees, published
\* or not
TabsPool ==
    { [B |-> <<"a">>, C |-> <<"x">>, D |-> "P", published_url |-> ""],
      [B |-> <<"a">>, C |-> <<"x">>, D |-> "P", published_url |-> "u"],
      [B |-> <<"a">>, C |-> <<"y">>, D |-> "P", published_url |-> "v"],
      [B |-> <<"a">>, C |-> <<"y">>, D |-> "Q", published_url |-> ""],
      [B |-> <<"b">>, C |-> <<"z">>, D |-> "Q", published_url |-> "w"] }

\* rows for the long lists: one that scores 1 against the first, a published
\* one that scores 0.7 against it, and one that scores 0 against both
LongPool ==
    { [B |-> <<"a">>, C |-> <<"x">>, D |-> "P", published_url |-> ""],
      [B |-> <<"a">>, C |-> <<"y">>, D |-> "P", published_url |-> "v"],
      [B |-> <<"b">>, C |-> <<"z">>, D |-> "Q", published_url |-> "w"] }

\* the data prop: a short list of any rows or a long list of LongPool rows
TabsData ==
    (RowLists(TabsPool, MaxTabsRows) \ {<<>>}) \cup [1..MaxLongRows -> LongPool]

TabsInit ==
    /\ rows \in TabsData
    /\ pc = "render"
    /\ activePromptIndex = 0
    /\ semanticWarnings = <<>>
    /\ shownSimilarPosts = <<>>
    /\ index = 0
    /\ processed = {}
    /\ clusters = <<>>
    /\ linkIndex = 0
    /\ internalLinkOpportunities = <<>>
    /\ pillarDistribution = <<>>
    /\ contentGaps = <<>>
    /\ post1 = NoPost
    /\ post2 = NoPost
    /\ similarity = NaN
    /\ tabsSimilarity = NaN
    /\ ColumnsIdle
    /\ TemplateIdle
    /\ NavIdle
    /\ HomeIdle

TabsNext == TabsEffect \/ Previous \/ NextPrompt

SpecTabs == TabsInit /\ [][TabsNext]_vars

---------------------------------------------------------------------------
(* getColumnLetter, in EnhancedExcelParser and in ExcelParser: one call of *)
(* each copy with the same column number, a step per loop iteration.       *)

\* String.fromCharCode for the codes 65..90
fromCharCode(code) ==
    <<"A", "B", "C", "D", "E", "F", "G", "H", "I", "J", "K", "L", "M", "N",
      "O", "P", "Q", "R", "S", "T", "U", "V", "W", "X", "Y", "Z">>[code - 64]

\* a positional numeral with A as the digit zero: no - 1 for the carry
nextColumnNumberPositional(n) == IF n \div 26 = 0 THEN -1 ELSE n \div 26

\* enhancedExcelParser.ts line 190: Math.floor(columnNumber / 26) - 1
nextColumnNumber(n) == (n \div 26) - 1

\* ExcelParser, line 69: Math.floor(columnNumber / 26) - 1
excelNextColumnNumber(n) == (n \div 26) - 1

\* enhancedExcelParser.ts lines 188-191: one iteration of the while loop
ColumnLoop ==
    /\ pcColumn = "while"
    /\ columnNumber >= 0
    /\ columnLetter' = <<fromCharCode(65 + (columnNumber % 26))>> \o columnLetter
    /\ columnNumber' = nextColumnNumber(columnNumber)
    /\ UNCHANGED <<columnArg, pcColumn, excelColumnNumber, excelColumnLetter,
                   pcExcelColumn>>
    /\ UNCHANGED <<rows, pc, index, processed, clusters, linkIndex,
                   internalLinkOpportunities>>
    /\ UNCHANGED simVars
    /\ UNCHANGED gapVars
    /\ UNCHANGED tabsVars
    /\ UNCHANGED templateVars
    /\ UNCHANGED navVars
    /\ UNCHANGED homeVars

\* lines 188 and 192: the loop condition fails, columnLetter is returned
ColumnReturn ==
    /\ pcColumn = "while"
    /\ ~(columnNumber >= 0)
    /\ pcColumn' = "returned"
    /\ UNCHANGED <<columnArg, columnNumber, columnLetter, excelColumnNumber,
                   excelColumnLetter, pcExcelColumn>>
    /\ UNCHANGED <<rows, pc, index, processed, clusters, linkIndex,
                   internalLinkOpportunities>>
    /\ UNCHANGED simVars
    /\ UNCHANGED gapVars
    /\ UNCHANGED tabsVars
    /\ UNCHANGED templateVars
    /\ UNCHANGED navVars
    /\ UNCHANGED homeVars

\* ExcelParser, lines 67-70: one iteration of the while loop
ExcelColumnLoop ==
    /\ pcExcelColumn = "while"
    /\ excelColumnNumber >= 0
    /\ excelColumnLetter' =
           <<fromCharCode(65 + (excelColumnNumber % 26))>> \o excelColumnLetter
    /\ excelColumnNumber' = excelNextColumnNumber(excelColumnNumber)
    /\ UNCHANGED <<columnArg, columnNumber, columnLetter, pcColumn,
                   pcExcelColumn>>
    /\ UNCHANGED <<rows, pc, index, processed, clusters, linkIndex,
                   internalLinkOpportunities>>
    /\ UNCHANGED simVars
    /\ UNCHANGED gapVars
    /\ UNCHANGED tabsVars
    /\ UNCHANGED templateVars
    /\ UNCHANGED navVars
    /\ UNCHANGED homeVars

\* ExcelParser, lines 67 and 71
ExcelColumnReturn ==
    /\ pcExcelColumn = "while"
    /\ ~(excelColumnNumber >= 0)
    /\ pcExcelColumn' = "returned"
    /\ UNCHANGED <<columnArg, columnNumber, columnLetter, pcColumn,
                   excelColumnNumber, excelColumnLetter>>
    /\ UNCHANGED <<rows, pc, index, processed, clusters, linkIndex,
                   internalLinkOpportunities>>
    /\ UNCHANGED simVars
    /\ UNCHANGED gapVars
    /\ UNCHANGED tabsVars
    /\ UNCHANGED templateVars
    /\ UNCHANGED navVars
    /\ UNCHANGED homeVars

\* both copies are entered with the same column number
ColumnsInit ==
    /\ columnArg \in 0..MaxColumn
    /\ columnNumber = columnArg
    /\ columnLetter = <<>>
    /\ pcColumn = "while"
    /\ excelColumnNumber = columnArg
    /\ excelColumnLetter = <<>>
    /\ pcExcelColumn = "while"
    /\ pc = "columns"
    /\ rows = <<>>
    /\ index = 0
    /\ processed = {}
    /\ clusters = <<>>
    /\ linkIndex = 0
    /\ internalLinkOpportunities = <<>>
    /\ post1 = NoPost
    /\ post2 = NoPost
    /\ similarity = NaN
    /\ tabsSimilarity = NaN
    /\ pillarDistribution = <<>>
    /\ contentGaps = <<>>
    /\ activePromptIndex = 0
    /\ semanticWarnings = <<>>
    /\ shownSimilarPosts = <<>>
    /\ TemplateIdle
    /\ NavIdle
    /\ HomeIdle

ColumnsNext == ColumnLoop \/ ColumnReturn \/ ExcelColumnLoop \/ ExcelColumnReturn

SpecColumns == ColumnsInit /\ [][ColumnsNext]_vars

\* a loop that can take a step takes it: each call runs to its end
FairSpecColumns ==
    SpecColumns /\ WF_vars(ColumnLoop \/ ColumnReturn)
                /\ WF_vars(ExcelColumnLoop \/ ExcelColumnReturn)

---------------------------------------------------------------------------
(* The substitution of field values into a template: generatePrompt of the *)
(* two prompt tabs and processTemplate.                                    *)

\* String.prototype.toUpperCase
toUpperCase(s) ==
    [i \in 1..Len(s) |->
        IF \E u \in DOMAIN LowerOf : LowerOf[u] = s[i]
        THEN CHOOSE u \in DOMAIN LowerOf : LowerOf[u] = s[i]
        ELSE s[i]]

\* `[${field.id.toUpperCase()}]`
placeholderOf(field) == <<"[">> \o toUpperCase(field.id) \o <<"]">>

(* GetSubstitution of ECMAScript for a match without capture groups: in    *)
(* the replacement text $$ is a dollar sign, $& the matched text, $` the   *)
(* text before the match and $' the text after it; any other text stands   *)
(* for itself. The replacement is read from left to right, so the first    *)
(* dollar sign that a pattern character follows starts the next pattern.   *)
RECURSIVE GetSubstitution(_, _, _, _)
GetSubstitution(matched, str, position, replacement) ==
    LET patterns == {i \in 1..(Len(replacement) - 1) :
                        /\ replacement[i] = "$"
                        /\ replacement[i + 1] \in {"$", "&", "`", "'"}}
    IN  IF patterns = {} THEN replacement
        ELSE LET i == CHOOSE i \in patterns : \A j \in patterns : i <= j
             IN  SubSeq(replacement, 1, i - 1)
                     \o (CASE replacement[i + 1] = "$" -> <<"$">>
                           [] replacement[i + 1] = "&" -> matched
                           [] replacement[i + 1] = "`" ->
                                  SubSeq(str, 1, position)
                           [] replacement[i + 1] = "'" ->
                                  SubSeq(str, position + Len(matched) + 1,
                                         Len(str)))
                     \o GetSubstitution(matched, str, position,
                                        SubSeq(replacement, i + 2,
                                               Len(replacement)))

\* String.prototype.indexOf(searchString, position) for a non-empty search
\* string: the first 0-based position of an occurrence from the position on,
\* or -1
indexOf(str, searchString, position) ==
    LET found == {p \in position..(Len(str) - Len(searchString)) :
                     SubSeq(str, p + 1, p + Len(searchString)) = searchString}
    IN  IF found = {} THEN -1
        ELSE CHOOSE p \in found : \A q \in found : p <= q

\* the occurrences of the search text replaced by the value itself
RECURSIVE replaceVerbatimFrom(_, _, _, _)
replaceVerbatimFrom(str, position, searchString, replaceValue) ==
    LET p == indexOf(str, searchString, position)
    IN  IF p = -1 THEN SubSeq(str, position + 1, Len(str))
        ELSE SubSeq(str, position + 1, p) \o replaceValue
                 \o replaceVerbatimFrom(str, p + Len(searchString),
                                        searchString, replaceValue)

\* String.prototype.replaceAll with a non-empty search string, from the
\* 0-based position on: the occurrences from left to right, none overlapping,
\* each found by indexOf from the end of the one before
RECURSIVE replaceAllFrom(_, _, _, _)
replaceAllFrom(str, position, searchString, replaceValue) ==
    LET p == indexOf(str, searchString, position)
    IN  IF p = -1 THEN SubSeq(str, position + 1, Len(str))
        ELSE SubSeq(str, position + 1, p)
                 \o GetSubstitution(searchString, str, p, replaceValue)
                 \o replaceAllFrom(str, p + Len(searchString), searchString,
                                   replaceValue)

replaceAll(str, searchString, replaceValue) ==
    replaceAllFrom(str, 0, searchString, replaceValue)

(* new RegExp(placeholder, 'g') for a placeholder [ID] whose ID consists   *)
(* of letters: a character class, which matches each single character     *)
(* that occurs in ID.                                                      *)
characterClass(placeholder) ==
    {placeholder[i] : i \in 2..(Len(placeholder) - 1)}

\* RegExp.prototype.exec of that expression with lastIndex at the position:
\* the first 0-based position of a character of the class, or -1
exec(str, placeholder, position) ==
    LET found == {p \in position..(Len(str) - 1) :
                     str[p + 1] \in characterClass(placeholder)}
    IN  IF found = {} THEN -1
        ELSE CHOOSE p \in found : \A q \in found : p <= q

\* str.replace(new RegExp(placeholder, 'g'), replaceValue) with the
\* placeholder taken as the text to match
replaceLiteralPlaceholder(str, placeholder, replaceValue) ==
    replaceVerbatimFrom(str, 0, placeholder, replaceValue)

\* str.replace(new RegExp(placeholder, 'g'), replaceValue) from the 0-based
\* position on: the matches from left to right, each one character long
RECURSIVE replaceRegExpFrom(_, _, _, _)
replaceRegExpFrom(str, position, placeholder, replaceValue) ==
    LET p == exec(str, placeholder, position)
    IN  IF p = -1 THEN SubSeq(str, position + 1, Len(str))
        ELSE SubSeq(str, position + 1, p)
                 \o GetSubstitution(<<str[p + 1]>>, str, p, replaceValue)
                 \o replaceRegExpFrom(str, p + 1, placeholder, replaceValue)

replaceRegExp(str, placeholder, replaceValue) ==
    replaceRegExpFrom(str, 0, placeholder, replaceValue)

\* Array.prototype.join
RECURSIVE join(_, _)
join(list, separator) ==
    IF list = <<>> THEN <<>>
    ELSE IF Len(list) = 1 THEN list[1]
    ELSE list[1] \o separator \o join(Tail(list), separator)

\* EnhancedPromptTabs.tsx lines 153-157: the forEach over the rest of the fields
RECURSIVE substituteFields(_, _, _)
substituteFields(text, fields, values) ==
    IF fields = <<>> THEN text
    ELSE LET field == fields[1]
             value == orEmpty(values[field.id])
         IN  substituteFields(replaceAll(text, placeholderOf(field), value),
                              Tail(fields), values)

\* EnhancedPromptTabs.tsx lines 150-161
generatePrompt(t, values) ==
    IF t = null THEN <<>> ELSE substituteFields(t.content, t.fields, values)

\* PromptTabs.tsx lines 101-105
RECURSIVE promptTabsSubstituteFields(_, _, _)
promptTabsSubstituteFields(text, fields, values) ==
    IF fields = <<>> THEN text
    ELSE LET field == fields[1]
             value == orEmpty(values[field.id])
         IN  promptTabsSubstituteFields(
                 replaceAll(text, placeholderOf(field), value),
                 Tail(fields), values)

\* PromptTabs.tsx lines 98-107
promptTabsGeneratePrompt(t, values) ==
    IF t = null THEN <<>>
    ELSE promptTabsSubstituteFields(t.content, t.fields, values)

\* processTemplate lines 9-19: the cell of the field's column, or else the
\* default value, or else ''
rawValueOf(field, row) ==
    IF field.excelColumn # "" /\ row[field.excelColumn] # undefined
           /\ row[field.excelColumn] # <<>>
    THEN row[field.excelColumn]
    ELSE IF field.defaultValue.kind = "array"
    THEN join(field.defaultValue.items, <<",", " ">>)
    ELSE IF field.defaultValue.kind = "string" THEN field.defaultValue.text
    ELSE <<>>

\* lines 22-39: the switch on the field type
RECURSIVE listItems(_)
listItems(items) ==
    IF items = <<>> THEN <<>>
    ELSE <<<<"<", "l", "i", ">">> \o items[1] \o <<"<", "/", "l", "i", ">">>>> \o listItems(Tail(items))

formattedValueOf(field, row) ==
    LET value == rawValueOf(field, row)
    IN  CASE field.type = "array" ->
                 join(listItems(trimAll(split(value, ","))), <<"\n">>)
          [] field.type = "image" ->
                 <<"<", "i", "m", "g", " ", "s", "r", "c", "=", "\"">> \o value \o <<"\"", " ", "a", "l", "t", "=", "\"">> \o field.label
                     \o <<"\"", " ", "c", "l", "a", "s", "s", "=", "\"", "i", "m", "a", "g", "e", "-">> \o field.id \o <<"\"", " ", "/", ">">>
          [] OTHER -> value

\* lines 7-43 with the placeholder replaced as a text
RECURSIVE processFieldsLiterally(_, _, _)
processFieldsLiterally(text, fields, row) ==
    IF fields = <<>> THEN text
    ELSE processFieldsLiterally(
             replaceLiteralPlaceholder(text, placeholderOf(fields[1]),
                                       formattedValueOf(fields[1], row)),
             Tail(fields), row)

\* lines 7-43: the forEach over the rest of the fields
RECURSIVE processFields(_, _, _)
processFields(text, fields, row) ==
    IF fields = <<>> THEN text
    ELSE processFields(
             replaceRegExp(text, placeholderOf(fields[1]),
                           formattedValueOf(fields[1], row)),
             Tail(fields), row)

\* processTemplate, lines 3-46
processTemplate(t, row) == processFields(t.content, t.fields, row)

\* the fields a template is made of: two text fields filled from the columns
\* A and B, a list field with a default list, and an image field
noDefault == [kind |-> "undefined", text |-> <<>>, items |-> <<>>]

fieldT ==
    [id |-> <<"t">>, excelColumn |-> "A", defaultValue |-> noDefault,
     type |-> "text", label |-> <<"T">>]

fieldK ==
    [id |-> <<"k">>, excelColumn |-> "B",
     defaultValue |-> [kind |-> "string", text |-> <<"d">>, items |-> <<>>],
     type |-> "textarea", label |-> <<"K">>]

fieldLi ==
    [id |-> <<"l", "i">>, excelColumn |-> "",
     defaultValue |-> [kind |-> "array", text |-> <<>>,
                       items |-> << <<"a">>, <<"b">> >>],
     type |-> "array", label |-> <<"L">>]

fieldIm ==
    [id |-> <<"i", "m">>, excelColumn |-> "A", defaultValue |-> noDefault,
     type |-> "image", label |-> <<"M">>]

Fields == {fieldT, fieldK, fieldLi, fieldIm}

\* the field lists: at most two fields, none twice
FieldLists ==
    {<<>>} \cup {<<f>> : f \in Fields}
           \cup {fs \in {<<f, g>> : f \in Fields, g \in Fields} : fs[1] # fs[2]}

\* the pieces of a template content: the four placeholders and two letters
Pieces == { <<"[", "T", "]">>, <<"[", "K", "]">>, <<"[", "L", "I", "]">>,
            <<"[", "I", "M", "]">>, <<"x">>, <<"T">> }

RECURSIVE Contents(_)
Contents(n) ==
    IF n = 0 THEN {<<>>}
    ELSE Contents(n - 1)
             \cup {c \o piece : c \in Contents(n - 1), piece \in Pieces}

\* what the field t is filled with: nothing, a word, the placeholder of the
\* field k, or the replacement pattern $&
ValuesT == {undefined, <<"v">>, <<"[", "K", "]">>, <<"$", "&">>}

\* what the field k is filled with
ValuesK == {<<>>, <<"w">>, <<"T">>}

TemplateInit ==
    /\ \/ template = null
       \/ \E c \in Contents(MaxPieces), fs \in FieldLists :
              template = [content |-> c, fields |-> fs, isNull |-> FALSE]
    /\ \E t \in ValuesT, k \in ValuesK :
           /\ fieldValues = [id \in {f.id : f \in Fields} |->
                                IF id = fieldT.id THEN t
                                ELSE IF id = fieldK.id THEN k ELSE undefined]
           /\ excelRow = [A |-> t, B |-> k]
    /\ prompt = <<>>
    /\ promptTabsPrompt = <<>>
    /\ content = <<>>
    /\ pc = "template"
    /\ rows = <<>>
    /\ index = 0
    /\ processed = {}
    /\ clusters = <<>>
    /\ linkIndex = 0
    /\ internalLinkOpportunities = <<>>
    /\ post1 = NoPost
    /\ post2 = NoPost
    /\ similarity = NaN
    /\ tabsSimilarity = NaN
    /\ pillarDistribution = <<>>
    /\ contentGaps = <<>>
    /\ activePromptIndex = 0
    /\ semanticWarnings = <<>>
    /\ shownSimilarPosts = <<>>
    /\ ColumnsIdle
    /\ NavIdle
    /\ HomeIdle

\* one call of generatePrompt in each of the two prompt tabs
GeneratePrompt ==
    /\ pc = "template"
    /\ pc' = "prompt"
    /\ prompt' = generatePrompt(template, fieldValues)
    /\ promptTabsPrompt' = promptTabsGeneratePrompt(template, fieldValues)
    /\ UNCHANGED <<template, fieldValues, excelRow, content>>
    /\ UNCHANGED <<rows, index, processed, clusters, linkIndex,
                   internalLinkOpportunities>>
    /\ UNCHANGED simVars
    /\ UNCHANGED gapVars
    /\ UNCHANGED tabsVars
    /\ UNCHANGED columnVars
    /\ UNCHANGED navVars
    /\ UNCHANGED homeVars

\* one call of processTemplate, which takes a template
ProcessTemplate ==
    /\ pc = "template"
    /\ template # null
    /\ pc' = "processed"
    /\ content' = processTemplate(template, excelRow)
    /\ UNCHANGED <<template, fieldValues, excelRow, prompt, promptTabsPrompt>>
    /\ UNCHANGED <<rows, index, processed, clusters, linkIndex,
                   internalLinkOpportunities>>
    /\ UNCHANGED simVars
    /\ UNCHANGED gapVars
    /\ UNCHANGED tabsVars
    /\ UNCHANGED columnVars
    /\ UNCHANGED navVars
    /\ UNCHANGED homeVars

TemplateNext == GeneratePrompt \/ ProcessTemplate

SpecTemplate == TemplateInit /\ [][TemplateNext]_vars

---------------------------------------------------------------------------
(* The row navigators EnhancedPromptTabs, PromptTabs and                   *)
(* ContentCalendarAnalysis, each mounted with a non-empty data prop that   *)
(* its parent replaces by another row list while it stays mounted (on the  *)
(* home page: setExcelData of handleExcelUpload, with the uploader above   *)
(* the open prompts tab).  No component has an effect on the index.        *)

\* the rows of the data PromptTabs and ContentCalendarAnalysis are given
NavRow == [A |-> <<"v">>]

\* the row lists the data prop of EnhancedPromptTabs is replaced by
NavData ==
    RowLists({r \in TabsPool : r.C = <<"x">>}, MaxNavRows) \ {<<>>}

\* the row lists the data prop of the two other navigators is replaced by
NavLists == RowLists({NavRow}, MaxNavRows) \ {<<>>}

\* EnhancedPromptTabs gets another data prop: the effect of lines 29-74 runs
\* again, activePromptIndex keeps its value
ReplaceData ==
    /\ pc = "shown"
    /\ rows' \in NavData \ {rows}
    /\ pc' = "render"
    /\ UNCHANGED <<index, processed, clusters, linkIndex,
                   internalLinkOpportunities>>
    /\ UNCHANGED simVars
    /\ UNCHANGED gapVars
    /\ UNCHANGED tabsVars
    /\ UNCHANGED columnVars
    /\ UNCHANGED templateVars
    /\ UNCHANGED navVars
    /\ UNCHANGED homeVars

\* the state that the navigation of PromptTabs and ContentCalendarAnalysis
\* leaves alone
NavUnchanged ==
    /\ UNCHANGED <<rows, pc, index, processed, clusters, linkIndex,
                   internalLinkOpportunities>>
    /\ UNCHANGED simVars
    /\ UNCHANGED gapVars
    /\ UNCHANGED tabsVars
    /\ UNCHANGED columnVars
    /\ UNCHANGED templateVars
    /\ UNCHANGED homeVars

\* PromptTabs.tsx line 320: the Previous Prompt button, disabled at index 0
PromptTabsPrevious ==
    /\ promptTabsIndex # 0
    /\ promptTabsIndex' = Max(0, promptTabsIndex - 1)
    /\ UNCHANGED <<promptTabsData, calendarData, calendarIndex>>
    /\ NavUnchanged

\* PromptTabs.tsx line 330: the Next Prompt button, disabled at the index
\* data.length - 1
PromptTabsNext ==
    /\ promptTabsIndex # Len(promptTabsData) - 1
    /\ promptTabsIndex' = Min(Len(promptTabsData) - 1, promptTabsIndex + 1)
    /\ UNCHANGED <<promptTabsData, calendarData, calendarIndex>>
    /\ NavUnchanged

\* page.tsx lines 128-132: setExcelData with the rows of another file, the
\* PromptTabs of lines 204-208 staying mounted
PromptTabsReplaceData ==
    /\ promptTabsData' \in NavLists \ {promptTabsData}
    /\ UNCHANGED <<promptTabsIndex, calendarData, calendarIndex>>
    /\ NavUnchanged

\* ContentCalendarAnalysis.tsx lines 99-103, the button disabled at index 0
navigatePrevious ==
    /\ calendarIndex # 0
    /\ calendarIndex' = IF calendarIndex > 0 THEN calendarIndex - 1 ELSE calendarIndex
    /\ UNCHANGED <<promptTabsData, promptTabsIndex, calendarData>>
    /\ NavUnchanged

\* ContentCalendarAnalysis.tsx lines 105-109, the button disabled at the
\* index data.length - 1
navigateNext ==
    /\ calendarIndex # Len(calendarData) - 1
    /\ calendarIndex' = IF calendarIndex < Len(calendarData) - 1
                       THEN calendarIndex + 1 ELSE calendarIndex
    /\ UNCHANGED <<promptTabsData, promptTabsIndex, calendarData>>
    /\ NavUnchanged

\* ContentCalendarAnalysis gets another data prop
CalendarReplaceData ==
    /\ calendarData' \in NavLists \ {calendarData}
    /\ UNCHANGED <<promptTabsData, promptTabsIndex, calendarIndex>>
    /\ NavUnchanged

\* the three navigators after their mount, each at row 0 of its data
NavInit ==
    /\ rows \in NavData
    /\ pc = "render"
    /\ activePromptIndex = 0
    /\ semanticWarnings = <<>>
    /\ shownSimilarPosts = <<>>
    /\ promptTabsData \in NavLists
    /\ promptTabsIndex = 0
    /\ calendarData \in NavLists
    /\ calendarIndex = 0
    /\ index = 0
    /\ processed = {}
    /\ clusters = <<>>
    /\ linkIndex = 0
    /\ internalLinkOpportunities = <<>>
    /\ pillarDistribution = <<>>
    /\ contentGaps = <<>>
    /\ post1 = NoPost
    /\ post2 = NoPost
    /\ similarity = NaN
    /\ tabsSimilarity = NaN
    /\ ColumnsIdle
    /\ TemplateIdle
    /\ HomeIdle

NavNext ==
    \/ TabsEffect \/ Previous \/ NextPrompt \/ ReplaceData
    \/ PromptTabsPrevious \/ PromptTabsNext \/ PromptTabsReplaceData
    \/ navigatePrevious \/ navigateNext \/ CalendarReplaceData

SpecNav == NavInit /\ [][NavNext]_vars

---------------------------------------------------------------------------
(* The home page: the templates, the active template, and the handlers     *)
(* that write them.  A template is the record of its id.                   *)

TemplateIds == 1..MaxTemplates

\* lists of templates with distinct ids, as the service returns them
TemplateLists ==
    {list \in RowLists([id : TemplateIds], MaxTemplates) :
        \A i \in 1..Len(list) : \A j \in 1..Len(list) :
            list[i].id = list[j].id => i = j}

\* prev.filter(t => t.id !== templateId)
withoutTemplate(list, templateId) ==
    SelectSeq(list, LAMBDA t : t.id # templateId)

\* templates[0] || null
firstOrNull(list) == IF Len(list) > 0 THEN list[1] ELSE nullTemplate

\* the state that the handlers of the home page leave alone
HomeUnchanged ==
    /\ UNCHANGED <<rows, index, processed, clusters, linkIndex,
                   internalLinkOpportunities>>
    /\ UNCHANGED simVars
    /\ UNCHANGED gapVars
    /\ UNCHANGED tabsVars
    /\ UNCHANGED columnVars
    /\ UNCHANGED templateVars
    /\ UNCHANGED navVars

\* page.tsx lines 73-87: loadTemplates, called by the effect of the mount
loadTemplates ==
    /\ pc = "loading"
    /\ \E loadedTemplates \in TemplateLists :
           /\ templates' = loadedTemplates
           /\ activeTemplate' = IF Len(loadedTemplates) > 0
                                THEN loadedTemplates[1] ELSE activeTemplate
    /\ pc' = "home"
    /\ UNCHANGED pendingDeletes
    /\ HomeUnchanged

\* lines 89-92, for a template the TemplateManager lists
handleTemplateSelect ==
    /\ pc # "loading"
    /\ \E i \in 1..Len(templates) : activeTemplate' = templates[i]
    /\ pc' = "home"
    /\ UNCHANGED <<templates, pendingDeletes>>
    /\ HomeUnchanged

\* lines 94-113 with the service succeeding: the saved template replaces the
\* one of its id or is appended, and becomes the active one
handleTemplateSave ==
    /\ pc # "loading"
    /\ \E savedTemplate \in [id : TemplateIds] :
           /\ templates' =
                  IF \E i \in 1..Len(templates) : templates[i].id = savedTemplate.id
                  THEN [i \in 1..Len(templates) |->
                           IF templates[i].id = savedTemplate.id
                           THEN savedTemplate ELSE templates[i]]
                  ELSE Append(templates, savedTemplate)
           /\ activeTemplate' = savedTemplate
    /\ pc' = "home"
    /\ UNCHANGED pendingDeletes
    /\ HomeUnchanged

(* TemplateManager.tsx lines 63-74 and page.tsx lines 115-117: the delete  *)
(* button of a listed template, refused for the last template; the handler *)
(* calls the service and awaits it, holding the templates and the          *)
(* activeTemplate of the render it was created in.                         *)
handleTemplateDeleteCall ==
    /\ pc # "loading"
    /\ Len(templates) # 1
    /\ Cardinality(pendingDeletes) < MaxPending
    /\ \E i \in 1..Len(templates) :
           pendingDeletes' = pendingDeletes \cup
               {[templateId |-> templates[i].id, templates |-> templates,
                 activeTemplate |-> activeTemplate]}
    /\ pc' = "home"
    /\ UNCHANGED <<templates, activeTemplate>>
    /\ HomeUnchanged

\* page.tsx lines 118-121: the service has deleted the template
handleTemplateDeleteReturn ==
    /\ pc # "loading"
    /\ \E call \in pendingDeletes :
           /\ pendingDeletes' = pendingDeletes \ {call}
           /\ templates' = withoutTemplate(templates, call.templateId)
           /\ activeTemplate' =
                  IF call.activeTemplate.id = call.templateId
                  THEN firstOrNull(call.templates)
                  ELSE activeTemplate
    /\ pc' = "deleted"
    /\ HomeUnchanged

\* page.tsx lines 122-125: the service has failed, the catch sets the error
handleTemplateDeleteCatch ==
    /\ pc # "loading"
    /\ \E call \in pendingDeletes : pendingDeletes' = pendingDeletes \ {call}
    /\ pc' = "home"
    /\ UNCHANGED <<templates, activeTemplate>>
    /\ HomeUnchanged

\* the home page after its first render
HomeInit ==
    /\ templates = <<>>
    /\ activeTemplate = nullTemplate
    /\ pendingDeletes = {}
    /\ pc = "loading"
    /\ rows = <<>>
    /\ index = 0
    /\ processed = {}
    /\ clusters = <<>>
    /\ linkIndex = 0
    /\ internalLinkOpportunities = <<>>
    /\ post1 = NoPost
    /\ post2 = NoPost
    /\ similarity = NaN
    /\ tabsSimilarity = NaN
    /\ pillarDistribution = <<>>
    /\ contentGaps = <<>>
    /\ activePromptIndex = 0
    /\ semanticWarnings = <<>>
    /\ shownSimilarPosts = <<>>
    /\ ColumnsIdle
    /\ TemplateIdle
    /\ NavIdle

HomeNext ==
    \/ loadTemplates
    \/ handleTemplateSelect
    \/ handleTemplateSave
    \/ handleTemplateDeleteCall
    \/ handleTemplateDeleteReturn
    \/ handleTemplateDeleteCatch

SpecHome == HomeInit /\ [][HomeNext]_vars

---------------------------------------------------------------------------
(* Notions the properties share. *)

\* similarity(rows[i], rows[j]) as the engine computes it
Sim(i, j) == calculateSimilarity(postOf(rows[i + 1]), postOf(rows[j + 1]))

RowIndices == 0..(Len(rows) - 1)

\* the positions <<cluster, member>> of all members of all clusters
MemberSlots ==
    {slot \in (1..Len(clusters)) \X (1..Len(rows)) :
        slot[2] <= Len(clusters[slot[1]].relatedPosts)}

MemberAt(slot) == clusters[slot[1]].relatedPosts[slot[2]]

\* how often row i occurs in the clusters, as anchor or as member
Occurrences(i) ==
    Cardinality({c \in 1..Len(clusters) : clusters[c].mainPost.index = i})
        + Cardinality({slot \in MemberSlots : MemberAt(slot).index = i})

\* the rows of cluster c
ClusterRows(c) ==
    {clusters[c].mainPost.index}
        \cup {clusters[c].relatedPosts[k].index :
                 k \in 1..Len(clusters[c].relatedPosts)}

Above(i, j) == GreaterThan(Sim(i, j), 3, 10)

\* some other row is above the threshold against i, in either direction
HasNeighbour(i) == \E x \in RowIndices \ {i} : Above(i, x) \/ Above(x, i)

\* x >= y for two numbers
AtLeast(x, y) ==
    \/ x.num * y.den > y.num * x.den
    \/ x.num * y.den = y.num * x.den /\ x.ulp >= y.ulp

---------------------------------------------------------------------------
(* C1: no row index occurs twice across all clusters, counting the anchor  *)
(* and the members of every cluster.                                       *)
C1_NoRowInTwoClusters == \A i \in RowIndices : Occurrences(i) <= 1

\* two clusters have been built
C1_Witness == pc = "done" /\ Len(clusters) >= 2

---------------------------------------------------------------------------
InUnitInterval(x) ==
    /\ x # NaN
    /\ x.den > 0
    /\ 0 <= x.num /\ x.num <= x.den
    /\ x.num = x.den => x.ulp <= 0
    /\ x.num = 0 => x.ulp >= 0

(* C2: every call of calculateSimilarity, of either copy, returns a number *)
(* s with 0 <= s <= 1 that is not NaN, also for empty titles and keywords. *)
C2_SimilarityInUnitInterval ==
    pc = "returned" =>
        InUnitInterval(similarity) /\ InUnitInterval(tabsSimilarity)

\* a call on two rows with empty titles and keywords has returned
C2_Witness ==
    /\ pc = "returned"
    /\ post1.keywords = <<>> /\ post2.keywords = <<>>
    /\ post1.title = <<>> /\ post2.title = <<>>
    /\ post1.pillar = post2.pillar
    /\ similarity.num = similarity.den

---------------------------------------------------------------------------
(* C3: the keyword-overlap term is 0 when one of the keyword strings is    *)
(* empty, and the title-overlap term is 0 when one of the titles is empty. *)
C3_EmptyTermIsZero ==
    pc = "returned" =>
        LET k == keywordSimilarity(post1.keywords, post2.keywords)
            t == calculateTextSimilarity(post1.title, post2.title)
        IN  /\ (post1.keywords = <<>> \/ post2.keywords = <<>>)
                   => (k # NaN /\ k.num = 0)
            /\ (post1.title = <<>> \/ post2.title = <<>>)
                   => (t # NaN /\ t.num = 0)

---------------------------------------------------------------------------
(* C4, as stated: a row r with similarity(r, x) <= 0.3 for every other row *)
(* x is in no cluster.                                                     *)
C4_Original ==
    pc = "done" =>
        \A r \in RowIndices :
            (\A x \in RowIndices \ {r} : ~Above(r, x)) => Occurrences(r) = 0

(* C4, amended: a row r with similarity(r, x) <= 0.3 and                   *)
(* similarity(x, r) <= 0.3 for every other row x is in no cluster.         *)
C4_IsolatedRowInNoCluster ==
    pc = "done" =>
        \A r \in RowIndices : ~HasNeighbour(r) => Occurrences(r) = 0

\* the engine is done, other rows were clustered, and a row without
\* neighbour was left out
C4_Witness ==
    /\ pc = "done"
    /\ Len(clusters) >= 1
    /\ \E r \in RowIndices : ~HasNeighbour(r)

---------------------------------------------------------------------------
(* C5, as stated: a row with a neighbour above the threshold (in either    *)
(* direction) is in exactly one cluster, and a row with none is in none.   *)
C5_Original ==
    pc = "done" =>
        \A r \in RowIndices :
            Occurrences(r) = (IF HasNeighbour(r) THEN 1 ELSE 0)

(* C5, amended: every row is in at most one cluster, a row without         *)
(* neighbour above the threshold is in none, and a row r that is in no     *)
(* cluster has every row x with similarity(r, x) > 0.3 in a cluster        *)
(* anchored before r.                                                      *)
C5_ClustersCoverNeighbours ==
    pc = "done" =>
        \A r \in RowIndices :
            /\ Occurrences(r) <= 1
            /\ ~HasNeighbour(r) => Occurrences(r) = 0
            /\ Occurrences(r) = 0 =>
                   \A x \in RowIndices \ {r} :
                       Above(r, x) =>
                           \E c \in 1..Len(clusters) :
                               /\ x \in ClusterRows(c)
                               /\ clusters[c].mainPost.index < r

\* a row with a neighbour above the threshold was left out of every cluster
C5_Witness ==
    /\ pc = "done"
    /\ \E r \in RowIndices : HasNeighbour(r) /\ Occurrences(r) = 0

---------------------------------------------------------------------------
Linked(i, j) == Above(i, j) /\ Above(j, i)

Apart(i, j) == ~Above(i, j) /\ ~Above(j, i)

MemberIndices(c) ==
    [k \in 1..Len(clusters[c].relatedPosts) |-> clusters[c].relatedPosts[k].index]

(* C6: for rows X, Y, Z with X-Y and Y-Z above 0.3 and X-Z not, in both    *)
(* directions, the list [X, Y, Z] gives the single cluster X with member Y *)
(* and leaves Z out, and the list [Y, X, Z] gives the single cluster Y     *)
(* with members X and Z.                                                   *)
C6_OrderDependence ==
    (pc = "done" /\ Len(rows) = 3) =>
        /\ (Linked(0, 1) /\ Linked(1, 2) /\ Apart(0, 2)) =>
               /\ Len(clusters) = 1
               /\ clusters[1].mainPost.index = 0
               /\ MemberIndices(1) = <<1>>
               /\ Occurrences(2) = 0
        /\ (Linked(0, 1) /\ Linked(0, 2) /\ Apart(1, 2)) =>
               /\ Len(clusters) = 1
               /\ clusters[1].mainPost.index = 0
               /\ MemberIndices(1) = <<1, 2>>

\* the engine is done with a list [X, Y, Z] of that kind
C6_Witness ==
    /\ pc = "done"
    /\ Len(rows) = 3
    /\ Linked(0, 1) /\ Linked(1, 2) /\ Apart(0, 2)

---------------------------------------------------------------------------
(* C7, as stated: in every cluster the anchor's index is smaller than the  *)
(* index of each member.                                                   *)
C7_Original ==
    \A slot \in MemberSlots :
        clusters[slot[1]].mainPost.index < MemberAt(slot).index

(* C7, amended: the anchors are scanned in ascending order, and a member m *)
(* precedes its anchor a only if similarity(m, a) <= 0.3 while             *)
(* similarity(a, m) > 0.3.                                                 *)
C7_EarlierMemberOnlyByAsymmetry ==
    /\ \A c \in 1..(Len(clusters) - 1) :
           clusters[c].mainPost.index < clusters[c + 1].mainPost.index
    /\ \A slot \in MemberSlots :
           LET a == clusters[slot[1]].mainPost.index
               m == MemberAt(slot).index
           IN  m < a => ~Above(m, a) /\ Above(a, m)

\* a later anchor has claimed a row scanned before it
C7_Witness ==
    /\ pc = "done"
    /\ \E slot \in MemberSlots :
           MemberAt(slot).index < clusters[slot[1]].mainPost.index

---------------------------------------------------------------------------
(* C8, as stated: the members of every cluster are in descending order of  *)
(* their recorded similarity.                                              *)
C8_Original ==
    \A slot \in MemberSlots :
        slot[2] > 1 =>
            AtLeast(clusters[slot[1]].relatedPosts[slot[2] - 1].similarity,
                    MemberAt(slot).similarity)

(* C8, amended: the members of every cluster are in ascending order of     *)
(* their row index, whatever their similarity.                             *)
C8_MembersInRowOrder ==
    \A slot \in MemberSlots :
        slot[2] > 1 =>
            clusters[slot[1]].relatedPosts[slot[2] - 1].index
                < MemberAt(slot).index

\* a member is followed by a member of higher similarity
C8_Witness ==
    /\ pc = "done"
    /\ \E slot \in MemberSlots :
           /\ slot[2] > 1
           /\ ~AtLeast(clusters[slot[1]].relatedPosts[slot[2] - 1].similarity,
                       MemberAt(slot).similarity)

---------------------------------------------------------------------------
(* C9: a call of the forEach callback on an unclaimed row i creates a      *)
(* cluster exactly when some unclaimed j # i has                           *)
(* similarity(rows[i], rows[j]) > 0.3; its members are exactly those j,    *)
(* each recorded with that similarity, and they and i become claimed.  On  *)
(* a claimed row, or without such j, nothing changes.                      *)
C9_MembershipExact ==
    [][(pc = "clusters" /\ index < Len(rows)) =>
          LET expected == {j \in RowIndices \ {index} :
                              j \notin processed /\ Above(index, j)}
          IN  IF index \in processed \/ expected = {}
              THEN clusters' = clusters /\ processed' = processed
              ELSE /\ Len(clusters') = Len(clusters) + 1
                   /\ SubSeq(clusters', 1, Len(clusters)) = clusters
                   /\ LET new == clusters'[Len(clusters')]
                      IN  /\ new.mainPost.index = index
                          /\ {new.relatedPosts[k].index :
                                  k \in 1..Len(new.relatedPosts)} = expected
                          /\ Len(new.relatedPosts) = Cardinality(expected)
                          /\ \A k \in 1..Len(new.relatedPosts) :
                                 new.relatedPosts[k].similarity
                                     = Sim(index, new.relatedPosts[k].index)
                   /\ processed' = processed \cup {index} \cup expected]_vars

\* a cluster was built while an unclaimed row scored exactly 0.3 against its
\* anchor, and that row is not a member
C9_Witness ==
    /\ pc = "done"
    /\ \E c \in 1..Len(clusters) : \E j \in RowIndices :
           LET a == clusters[c].mainPost.index
           IN  /\ j # a
               /\ \A b \in 1..c : j \notin ClusterRows(b)
               /\ Sim(a, j) = [num |-> 3, den |-> 10, ulp |-> 0]

---------------------------------------------------------------------------
(* C10: no suggestion list holds the publishedUrl of its own row, and none *)
(* has more than 3 entries.                                                *)
C10_NoOwnUrlAtMostThree ==
    \A e \in 1..Len(internalLinkOpportunities) :
        LET entry == internalLinkOpportunities[e]
        IN  /\ Len(entry.suggestedLinks) <= 3
            /\ \A k \in 1..Len(entry.suggestedLinks) :
                   entry.suggestedLinks[k] # entry.url

---------------------------------------------------------------------------
(* C11: analyzeContentHolistically raises no error, whatever the row list: *)
(* also when rows lack the title, keywords or category property and two or *)
(* more rows have a non-empty published_url.                               *)
C11_EngineNeverThrows == pc # "error"

---------------------------------------------------------------------------
\* the own properties of the distribution object, as a set
DistributionEntries ==
    {pillarDistribution[i] : i \in 1..Len(pillarDistribution)}

---------------------------------------------------------------------------
\* the number of elements of a, each occurrence counted, that occur in b
RECURSIVE containedOccurrences(_, _)
containedOccurrences(a, b) ==
    IF a = <<>> THEN 0
    ELSE (IF \E i \in 1..Len(b) : b[i] = Head(a) THEN 1 ELSE 0)
             + containedOccurrences(Tail(a), b)

\* the keyword tokens of a row: split on commas, each trimmed and lowercased
KeywordTokens(keywords) ==
    LET pieces == split(keywords, ",")
    IN  [i \in 1..Len(pieces) |-> toLowerCase(trim(pieces[i]))]

\* the title words of a row: the lowercased title split on single blanks
TitleWords(title) == split(toLowerCase(title), " ")

(* min(1, 0.5*K + P + 0.4*T) as the fraction <<numerator, denominator>>,   *)
(* for the containment ratios K and T of the tokens and P = 0.3 for equal  *)
(* categories.                                                             *)
StatedScore(a, b) ==
    LET ka == KeywordTokens(a.keywords)
        kb == KeywordTokens(b.keywords)
        ta == TitleWords(a.title)
        tb == TitleWords(b.title)
        kn == containedOccurrences(ka, kb)
        kd == Max(Len(ka), Len(kb))
        tn == containedOccurrences(ta, tb)
        td == Max(Len(ta), Len(tb))
        p  == IF a.pillar = b.pillar THEN 3 ELSE 0
        num == 5 * kn * td + p * kd * td + 4 * tn * kd
        den == 10 * kd * td
    IN  <<Min(num, den), den>>

\* the number x has the exact value of the fraction f
HasValue(x, f) == x # NaN /\ f[2] # 0 /\ x.num * f[2] = f[1] * x.den

(* C13: similarity(a, b) is min(1, 0.5*K + P + 0.4*T), where K is the      *)
(* number of keyword tokens of a (split on commas, trimmed, lowercased,    *)
(* each occurrence counted) that occur in b's token list, divided by the   *)
(* larger token count, P is 0.3 for case-sensitively equal categories and  *)
(* 0 otherwise, and T is the same ratio over the words of the lowercased   *)
(* titles split on single blanks.                                          *)
C13_SimilarityFormula ==
    pc = "returned" => HasValue(similarity, StatedScore(post1, post2))

\* a call has returned 0.5 for keywords 'a,a' against 'a, B': both
\* occurrences of a count, and nothing else is shared
C13_Witness ==
    /\ pc = "returned"
    /\ post1.keywords = <<"a", ",", "a">>
    /\ post2.keywords = <<"a", ",", " ", "B">>
    /\ post1.title = <<>> /\ post2.title = <<"a">>
    /\ post1.pillar # post2.pillar
    /\ similarity = [num |-> 1, den |-> 2, ulp |-> 0]

---------------------------------------------------------------------------
(* C14: for two rows with the same non-empty title, the same non-empty     *)
(* keyword string and the same category, similarity is exactly 1: the sum  *)
(* 0.5 + 0.3 + 0.4 is capped at 1, also with repeated tokens.              *)
C14_IdenticalRowsScoreOne ==
    (/\ pc = "returned"
     /\ post1 = post2
     /\ post1.title # <<>>
     /\ post1.keywords # <<>>) =>
        similarity = [num |-> 1, den |-> 1, ulp |-> 0]

\* a call on two identical rows with a repeated keyword and a repeated title
\* word has returned
C14_Witness ==
    /\ pc = "returned"
    /\ post1 = post2
    /\ post1.keywords = <<"a", ",", "a">>
    /\ post1.title = <<"a", " ", "a">>
    /\ similarity = [num |-> 1, den |-> 1, ulp |-> 0]

---------------------------------------------------------------------------
\* how often x occurs in the list
Multiplicity(list, x) == Cardinality({i \in 1..Len(list) : list[i] = x})

\* some element of both lists occurs more often in one than in the other
MultiplicitiesDiffer(a, b) ==
    \E i \in 1..Len(a) :
        /\ \E j \in 1..Len(b) : b[j] = a[i]
        /\ Multiplicity(a, a[i]) # Multiplicity(b, a[i])

(* C15: similarity is not symmetric.  similarity(a, b) differs from        *)
(* similarity(b, a) only for rows in which a shared keyword token or a     *)
(* shared title word occurs more often in one row than in the other, and   *)
(* such rows exist with one direction above 0.3 and the other not (the     *)
(* witness).                                                               *)
C15_AsymmetryFromMultiplicity ==
    (pc = "returned" /\ similarity # calculateSimilarity(post2, post1)) =>
        \/ MultiplicitiesDiffer(KeywordTokens(post1.keywords),
                                KeywordTokens(post2.keywords))
        \/ MultiplicitiesDiffer(TitleWords(post1.title), TitleWords(post2.title))

\* a call has returned a score above 0.3 for a pair that scores at most 0.3
\* with the arguments exchanged: keywords 'a,a' against 'a, B'
C15_Witness ==
    /\ pc = "returned"
    /\ post1.keywords = <<"a", ",", "a">>
    /\ post2.keywords = <<"a", ",", " ", "B">>
    /\ GreaterThan(similarity, 3, 10)
    /\ ~GreaterThan(calculateSimilarity(post2, post1), 3, 10)
    /\ calculateSimilarity(post2, post1) = [num |-> 1, den |-> 4, ulp |-> 0]

---------------------------------------------------------------------------
\* the score that line 162 computes for the rows i and j
LinkSim(i, j) == calculateSimilarity(rawPostOf(rows[i + 1]), rawPostOf(rows[j + 1]))

IsPublished(i) == rows[i + 1].published_url # ""

\* the other published rows that score above 0.2 against row r
Linkable(r) ==
    {j \in RowIndices \ {r} : IsPublished(j) /\ GreaterThan(LinkSim(r, j), 2, 10)}

\* the row of the e-th entry: the e-th published row
SourceRow(e) ==
    CHOOSE r \in RowIndices :
        /\ IsPublished(r)
        /\ Cardinality({i \in RowIndices : IsPublished(i) /\ i < r}) = e - 1

\* the k-th row of a set of rows, in row order
NthOf(set, k) ==
    CHOOSE j \in set : Cardinality({i \in set : i < j}) = k - 1

(* C16: there is one entry per row with a non-empty published_url and none *)
(* for the other rows; the suggestions of a row r are the URLs of the      *)
(* first at most three rows, in row order and whatever their scores, among *)
(* the other published rows with similarity(r, other) > 0.2.               *)
C16_FirstThreeInRowOrder ==
    pc = "done" =>
        /\ Len(internalLinkOpportunities)
               = Cardinality({i \in RowIndices : IsPublished(i)})
        /\ \A e \in 1..Len(internalLinkOpportunities) :
               LET entry == internalLinkOpportunities[e]
                   r == SourceRow(e)
               IN  /\ entry.url = rows[r + 1].published_url
                   /\ Len(entry.suggestedLinks)
                          = Min(3, Cardinality(Linkable(r)))
                   /\ \A k \in 1..Len(entry.suggestedLinks) :
                          entry.suggestedLinks[k]
                              = rows[NthOf(Linkable(r), k) + 1].published_url

\* a row has more than three linkable rows, and one that was dropped scores
\* higher than one that was kept
C16_Witness ==
    /\ pc = "done"
    /\ \E e \in 1..Len(internalLinkOpportunities) :
           LET r == SourceRow(e)
           IN  /\ Cardinality(Linkable(r)) > 3
               /\ \E kept \in Linkable(r), dropped \in Linkable(r) :
                      /\ Cardinality({i \in Linkable(r) : i < kept}) < 3
                      /\ Cardinality({i \in Linkable(r) : i < dropped}) >= 3
                      /\ ~AtLeast(LinkSim(r, kept), LinkSim(r, dropped))

---------------------------------------------------------------------------
(* C17: the postIndex of every entry of internalLinkOpportunities is the   *)
(* position of its source row in the row list, also when unpublished rows  *)
(* precede that row.                                                       *)
C17_PostIndexIsRowIndex ==
    \A e \in 1..Len(internalLinkOpportunities) :
        internalLinkOpportunities[e].postIndex = SourceRow(e)

---------------------------------------------------------------------------
\* the category a row is counted under
CategoryOf(i) ==
    IF rows[i + 1].D = undefinedLabel \/ rows[i + 1].D = ""
    THEN "Unknown" ELSE rows[i + 1].D

Categories == {CategoryOf(i) : i \in RowIndices}

\* the number of rows counted under the category
CurrentCount(category) ==
    Cardinality({i \in RowIndices : CategoryOf(i) = category})

\* ceil(0.2 * N) for the N rows of the list: the least m with 5 m >= N
SuggestedCount == CHOOSE m \in 0..Len(rows) : 5 * m >= Len(rows) /\ 5 * (m - 1) < Len(rows)

GapCategories == {c \in Categories : SuggestedCount - CurrentCount(c) > 0}

(* C18: contentGaps has an entry for a category with current count c       *)
(* exactly when ceil(0.2 * N) - c > 0, with suggestedCount = ceil(0.2 * N) *)
(* and gap = ceil(0.2 * N) - c; a category with gap 0 has none; rows with  *)
(* an empty or missing category count under "Unknown", which is a category *)
(* like the others.                                                        *)
C18_GapsExactlyWherePositive ==
    pc = "done" =>
        /\ {contentGaps[k].pillar : k \in 1..Len(contentGaps)} = GapCategories
        /\ Len(contentGaps) = Cardinality(GapCategories)
        /\ \A k \in 1..Len(contentGaps) :
               LET entry == contentGaps[k]
               IN  /\ entry.currentCount = CurrentCount(entry.pillar)
                   /\ entry.suggestedCount = SuggestedCount
                   /\ entry.gap = SuggestedCount - CurrentCount(entry.pillar)
                   /\ entry.gap > 0

---------------------------------------------------------------------------
(* C19: pillarDistribution maps each category to the number of rows that   *)
(* carry it, the rows with an empty or missing category counting under     *)
(* "Unknown": its keys are exactly the categories that occur, each once,   *)
(* and every count is a number (so that the counts add up to the number of *)
(* rows).                                                                  *)
C19_DistributionCountsRows ==
    pc # "pillars" =>
        /\ {pillarDistribution[i].pillar : i \in 1..Len(pillarDistribution)}
               = Categories
        /\ Len(pillarDistribution) = Cardinality(Categories)
        /\ \A i \in 1..Len(pillarDistribution) :
               pillarDistribution[i].count
                   = number(CurrentCount(pillarDistribution[i].pillar))

---------------------------------------------------------------------------
\* the score of row j against the current row, as the row navigator computes it
TabsSim(i, j) == tabsCalculateSimilarity(postOf(rows[i + 1]), postOf(rows[j + 1]))

Listed == {shownSimilarPosts[k] : k \in 1..Len(shownSimilarPosts)}

\* the warnings of each kind, by their text
HighWarnings ==
    {k \in 1..Len(semanticWarnings) :
        semanticWarnings[k][1] = highSimilarityWarning(0)[1]}

PublishedWarnings ==
    {k \in 1..Len(semanticWarnings) : semanticWarnings[k] = publishedWarning}

(* C20: once the effect has run for the current row, the warnings are      *)
(* those of the similar-rows list of that row and of no other: the "high   *)
(* similarity" warning is present exactly when a listed row scores > 0.7,  *)
(* the "published content exists" warning exactly when a listed row with a *)
(* published_url scores > 0.5, each at most once, whatever the other does. *)
C20_WarningsIndependent ==
    pc = "shown" =>
        /\ \A q \in Listed :
               /\ q.index # activePromptIndex
               /\ q.similarity = TabsSim(activePromptIndex, q.index)
               /\ q.isPublished = IsPublished(q.index)
        /\ Cardinality(HighWarnings) =
               (IF \E q \in Listed : GreaterThan(q.similarity, 7, 10)
                THEN 1 ELSE 0)
        /\ Cardinality(PublishedWarnings) =
               (IF \E q \in Listed :
                       q.isPublished /\ GreaterThan(q.similarity, 5, 10)
                THEN 1 ELSE 0)
        /\ Len(semanticWarnings)
               = Cardinality(HighWarnings) + Cardinality(PublishedWarnings)

\* after a navigation from a row without warning, the current row has both
\* warnings
C20_Witness ==
    /\ pc = "shown"
    /\ activePromptIndex = 1
    /\ \A j \in RowIndices \ {0} : ~GreaterThan(TabsSim(0, j), 3, 10)
    /\ Len(semanticWarnings) = 2
    /\ HighWarnings = {1} /\ PublishedWarnings = {2}

---------------------------------------------------------------------------
\* the rows other than the current one that score above 0.3 against it
Qualifying ==
    {j \in RowIndices \ {activePromptIndex} :
        GreaterThan(TabsSim(activePromptIndex, j), 3, 10)}

ListedIndices == {shownSimilarPosts[k].index : k \in 1..Len(shownSimilarPosts)}

(* C21: the similar-rows list of the current row contains only other rows, *)
(* each once, with similarity(current, other) > 0.3; it is sorted by       *)
(* descending score and holds at most 5 entries: all qualifying rows when  *)
(* at most 5 qualify, and otherwise 5 of them than which no qualifying row *)
(* left out scores higher.                                                 *)
C21_TopFiveByScore ==
    pc = "shown" =>
        /\ ListedIndices \subseteq Qualifying
        /\ Len(shownSimilarPosts) = Min(5, Cardinality(Qualifying))
        /\ Cardinality(ListedIndices) = Len(shownSimilarPosts)
        /\ \A k \in 1..Len(shownSimilarPosts) :
               shownSimilarPosts[k].similarity
                   = TabsSim(activePromptIndex, shownSimilarPosts[k].index)
        /\ \A k \in 1..Len(shownSimilarPosts) :
               \A l \in (k + 1)..Len(shownSimilarPosts) :
                   AtLeast(shownSimilarPosts[k].similarity,
                           shownSimilarPosts[l].similarity)
        /\ \A j \in Qualifying \ ListedIndices :
               \A k \in 1..Len(shownSimilarPosts) :
                   AtLeast(shownSimilarPosts[k].similarity,
                           TabsSim(activePromptIndex, j))

\* six rows qualify for the list of the current row, the one left out scores
\* less than the last one listed, and it precedes a listed row in the data
C21_Witness ==
    /\ pc = "shown"
    /\ Cardinality(Qualifying) = 6
    /\ Len(shownSimilarPosts) = 5
    /\ \E j \in Qualifying \ ListedIndices :
           /\ ~AtLeast(TabsSim(activePromptIndex, j),
                       shownSimilarPosts[5].similarity)
           /\ \E i \in ListedIndices : j < i

---------------------------------------------------------------------------
\* the text sub occurs in the text s at some offset
Occurs(sub, s) ==
    \E offset \in 0..(Len(s) - Len(sub)) :
        \A k \in 1..Len(sub) : s[offset + k] = sub[k]

\* the lowercased title and keywords of row i, a blank between them
AnchorText(i) ==
    toLowerCase(orEmpty(rows[i + 1].B) \o <<" ">> \o orEmpty(rows[i + 1].C))

\* the theme that the anchor row i determines
ThemeOf(i) ==
    IF \A t \in 1..Len(commonThemes) : ~Occurs(commonThemes[t], AnchorText(i))
    THEN "General"
    ELSE themeNames[CHOOSE t \in 1..Len(commonThemes) :
                        /\ Occurs(commonThemes[t], AnchorText(i))
                        /\ \A u \in 1..(t - 1) :
                               ~Occurs(commonThemes[u], AnchorText(i))]

(* C22: the theme of every cluster is the first entry, in the order "wine  *)
(* tasting", "wedding", "vineyard", "events", "sustainability", "harvest", *)
(* that occurs as a substring of the anchor's lowercased title and         *)
(* keywords (the two joined by one blank), and "General" when none occurs; *)
(* it is a function of the anchor row alone, whatever the members.         *)
C22_ThemeFromAnchor ==
    \A c \in 1..Len(clusters) :
        clusters[c].theme = ThemeOf(clusters[c].mainPost.index)

\* a cluster has the theme "wedding" of an anchor whose title names the
\* harvest before the wedding, and its member alone would give "vineyard"
C22_Witness ==
    /\ pc = "done"
    /\ Len(clusters) = 1
    /\ clusters[1].theme = "wedding"
    /\ Occurs(<<"h", "a", "r", "v", "e", "s", "t", " ", "w">>,
              AnchorText(clusters[1].mainPost.index))
    /\ Len(clusters[1].relatedPosts) = 1
    /\ ThemeOf(clusters[1].relatedPosts[1].index) = "vineyard"

\* a cluster has a theme that occurs neither in the title nor in the keywords
\* of its anchor, but across the blank between the two
C22_WitnessAcross ==
    /\ pc = "done"
    /\ Len(clusters) = 1
    /\ clusters[1].theme = "wine tasting"
    /\ ~Occurs(commonThemes[1], toLowerCase(rows[clusters[1].mainPost.index + 1].B))
    /\ ~Occurs(commonThemes[1], toLowerCase(rows[clusters[1].mainPost.index + 1].C))

---------------------------------------------------------------------------
\* the position of a letter in the alphabet, from 1
LetterValue(letter) == CHOOSE v \in 1..26 : fromCharCode(64 + v) = letter

\* the 0-based number of the column with the reference letters: the letters
\* are the digits 1..26 of a numeral to the base 26, and column A is 0
RECURSIVE ColumnCount(_)
ColumnCount(letters) ==
    IF letters = <<>> THEN 0
    ELSE 26 * ColumnCount(SubSeq(letters, 1, Len(letters) - 1))
             + LetterValue(letters[Len(letters)])

IsReference(letters) ==
    /\ Len(letters) >= 1
    /\ \A i \in 1..Len(letters) : \E v \in 1..26 : fromCharCode(64 + v) = letters[i]

BothReturned == pcColumn = "returned" /\ pcExcelColumn = "returned"

\* the references the statement names
NamedReferences ==
    (0 :> <<"A">>) @@ (25 :> <<"Z">>) @@ (26 :> <<"A", "A">>)
        @@ (27 :> <<"A", "B">>) @@ (701 :> <<"Z", "Z">>)
        @@ (702 :> <<"A", "A", "A">>)

(* C23: for every column number n >= 0 both copies of getColumnLetter      *)
(* return, and return the same Excel-style reference of n: a non-empty     *)
(* word over A..Z that denotes n (0 -> A, 25 -> Z, 26 -> AA, 27 -> AB,     *)
(* 701 -> ZZ, 702 -> AAA).  The number is recovered from the reference, so *)
(* distinct numbers have distinct references.                              *)
C23_ColumnReference ==
    /\ [](pcColumn = "returned" =>
             /\ IsReference(columnLetter)
             /\ ColumnCount(columnLetter) - 1 = columnArg
             /\ columnArg \in DOMAIN NamedReferences =>
                    columnLetter = NamedReferences[columnArg])
    /\ [](BothReturned => excelColumnLetter = columnLetter)
    /\ <>BothReturned

\* both copies have returned AAA for the column number 702
C23_Witness ==
    /\ pc = "columns"
    /\ BothReturned
    /\ columnArg = 702
    /\ columnLetter = <<"A", "A", "A">>
    /\ excelColumnLetter = <<"A", "A", "A">>

---------------------------------------------------------------------------
\* the content with the placeholder of every field, in the order of the
\* fields, replaced as a text by the formatted value of the field
LiterallyProcessed ==
    processFieldsLiterally(template.content, template.fields, excelRow)

(* C24: processTemplate replaces every occurrence of each field's literal  *)
(* placeholder "[FIELD_ID]" in the template content with that field's      *)
(* value and leaves every character of the content that is not part of    *)
(* such a placeholder unchanged.                                           *)
C24_LiteralPlaceholders ==
    pc = "processed" => content = LiterallyProcessed

---------------------------------------------------------------------------
(* C25: calculateSimilarity of EnhancedExcelParser and calculateSimilarity *)
(* of EnhancedPromptTabs return the same number for every pair of rows, so *)
(* a pair is above the threshold 0.3 in one exactly when it is in the      *)
(* other.                                                                  *)
C25_SameScoreInBothCopies ==
    pc = "returned" =>
        /\ tabsSimilarity = similarity
        /\ GreaterThan(tabsSimilarity, 3, 10) <=> GreaterThan(similarity, 3, 10)

\* both copies have returned a score above 0.3 that only the lowercasing of
\* the titles produces, for rows of different categories
C25_Witness ==
    /\ pc = "returned"
    /\ post1.title = <<"A">>
    /\ post2.title = <<"a">>
    /\ post1.pillar # post2.pillar
    /\ post1.keywords = <<>>
    /\ post2.keywords = <<"a", ",", "a">>
    /\ tabsSimilarity = similarity
    /\ GreaterThan(tabsSimilarity, 3, 10)

---------------------------------------------------------------------------
\* no element occurs twice in the list
NoRepetition(list) ==
    \A i \in 1..Len(list) : \A j \in 1..Len(list) : list[i] = list[j] => i = j

\* no keyword token occurs twice in the keyword list of the row and no word
\* twice in its title
NoRepeatedToken(post) ==
    /\ NoRepetition(KeywordTokens(post.keywords))
    /\ NoRepetition(TitleWords(post.title))

(* C26: when neither row contains a repeated token (no keyword token       *)
(* occurs twice in a row's keyword list and no word twice in a row's       *)
(* title), similarity(a, b) = similarity(b, a).                            *)
C26_SymmetricWithoutRepetition ==
    (pc = "returned" /\ NoRepeatedToken(post1) /\ NoRepeatedToken(post2)) =>
        similarity = calculateSimilarity(post2, post1)

\* a call has returned for two rows without repeated tokens that share one
\* of two keyword tokens and one of two title words
C26_Witness ==
    /\ pc = "returned"
    /\ NoRepeatedToken(post1) /\ NoRepeatedToken(post2)
    /\ post1.keywords = <<"a", ",">>
    /\ post2.keywords = <<"A">>
    /\ post1.title = <<"a", " ", "b">>
    /\ post2.title = <<"A">>
    /\ post1.pillar # post2.pillar
    /\ similarity = calculateSimilarity(post2, post1)
    /\ similarity = [num |-> 9, den |-> 20, ulp |-> 0]

---------------------------------------------------------------------------
\* the other rows with a published_url that score above 0.5 against the
\* current row
PublishedAboveHalf ==
    {j \in RowIndices \ {activePromptIndex} :
        IsPublished(j) /\ GreaterThan(TabsSim(activePromptIndex, j), 5, 10)}

(* C27: the "published content exists" warning is shown for the current    *)
(* row whenever some other row of the data with a published_url scores     *)
(* > 0.5 against it, however many unpublished rows score higher.           *)
C27_PublishedWarningNeverHidden ==
    pc = "shown" => (PublishedAboveHalf # {} => PublishedWarnings # {})

---------------------------------------------------------------------------
(* C28: in the three row navigators, after any sequence of Previous and    *)
(* Next actions and of replacements of the data prop by another non-empty  *)
(* row list, the current index is within the data,                         *)
(* 0 <= index <= data.length - 1, so that the current row is defined.      *)
C28_IndexWithinData ==
    /\ activePromptIndex \in 0..(Len(rows) - 1)
    /\ promptTabsIndex \in 0..(Len(promptTabsData) - 1)
    /\ calendarIndex \in 0..(Len(calendarData) - 1)

---------------------------------------------------------------------------
\* the active template is one of the templates of the list
ActiveIsListed == \E i \in 1..Len(templates) : templates[i] = activeTemplate

(* C29: after handleTemplateDelete has succeeded for a template id,        *)
(* activeTemplate is null or a template that is still in the templates     *)
(* list: the deleted template is not left as the active one, also when it  *)
(* was the first of the list.                                              *)
C29_ActiveTemplateStillListed ==
    pc = "deleted" => (activeTemplate = nullTemplate \/ ActiveIsListed)

---------------------------------------------------------------------------
\* the list in the opposite order
Reversed(list) == [i \in 1..Len(list) |-> list[Len(list) + 1 - i]]

\* the fields whose placeholder stands in the text at the 0-based position
FieldsAt(text, position, fields) ==
    {i \in 1..Len(fields) :
        /\ position + Len(placeholderOf(fields[i])) <= Len(text)
        /\ SubSeq(text, position + 1, position + Len(placeholderOf(fields[i])))
               = placeholderOf(fields[i])}

\* the text with every placeholder of a field replaced by the value of the
\* field as it is, the values themselves not searched
RECURSIVE VerbatimFrom(_, _, _, _)
VerbatimFrom(text, position, fields, values) ==
    IF position >= Len(text) THEN <<>>
    ELSE IF FieldsAt(text, position, fields) # {}
    THEN LET field == fields[CHOOSE i \in FieldsAt(text, position, fields) : TRUE]
         IN  orEmpty(values[field.id])
                 \o VerbatimFrom(text, position + Len(placeholderOf(field)),
                                 fields, values)
    ELSE <<text[position + 1]>> \o VerbatimFrom(text, position + 1, fields, values)

(* C30: generatePrompt, in both prompt tabs, inserts the field values      *)
(* verbatim: the prompt is the template content with each placeholder      *)
(* replaced by the value of its field, a value that contains another       *)
(* field's placeholder is not substituted again, and so the prompt is the  *)
(* same for the fields in the opposite order.                              *)
C30_ValuesInsertedVerbatim ==
    (pc = "prompt" /\ template # null) =>
        /\ prompt = VerbatimFrom(template.content, 0, template.fields, fieldValues)
        /\ prompt = generatePrompt([template EXCEPT !.fields = Reversed(@)],
                                   fieldValues)
        /\ promptTabsPrompt = prompt

====
